---- MODULE Spec2Model ----
(***************************************************************************)
(* Model of the block-tree part of SqliteFullDatabase                      *)
(* (lib/src/database/full_sqlite.rs): the `blocks`, `blocks_body` and      *)
(* `meta` tables and the operations insert, set_finalized,                 *)
(* purge_finality_orphans and reset, with the queries that read them; and  *)
(* the state tries: the `trie_node`, `trie_node_storage` and               *)
(* `trie_node_child` tables, insert_trie_nodes, the purge of a block's     *)
(* storage and the storage queries.                                        *)
(*                                                                         *)
(* Every public operation takes the mutex, opens a transaction, and either *)
(* commits or drops the transaction (rusqlite rolls back on drop).  The    *)
(* block tree, the tries and the consensus metadata are followed with one  *)
(* atomic action per operation; the threads are followed statement by      *)
(* statement, with the mutex and the iterators that callers hand over.     *)
(***************************************************************************)
EXTENDS Integers, Sequences, FiniteSets, TLC

VARIABLES
    blocks,            \* table blocks: hash -> row
    blocks_body,       \* table blocks_body: set of rows (hash, idx, extrinsic)
    meta,              \* table meta: keys "best" and "finalized"
    consensus_meta,    \* the other keys of meta and the consensus side tables
    trie_node,         \* table trie_node: hash -> partial_key
    trie_node_storage, \* table trie_node_storage: node_hash -> row
    trie_node_child,   \* table trie_node_child: set of rows
    debug_assertions,  \* whether the build compiles debug_assert! in
    not_null,          \* whether the schema rejects a NULL is_best_chain
    hung,              \* a statement that never ends holds the mutex
    last,              \* history: the last call and what it returned
    resets,            \* history: number of reset calls so far
    inserted,          \* history: body given to the insert that stored a block
    replaced,          \* history: inserted blocks that a later reset replaced
    finalized_arg,     \* history: hash given to the last set_finalized/reset
    mutex,             \* the thread that holds the mutex of the connection
    pc,                \* where each thread is in the operation it runs
    committed,         \* the tables as of the last commit
    calls              \* history: number of operations the threads started

vars == <<blocks, blocks_body, meta, consensus_meta, trie_node, trie_node_storage,
          trie_node_child, debug_assertions, not_null, hung, last,
          resets, inserted, replaced, finalized_arg, mutex, pc, committed, calls>>

-----------------------------------------------------------------------------
(* Bounds *)

\* reset calls explored after initialize
MaxResets == 1

-----------------------------------------------------------------------------
(* Inputs: the headers and bodies callers hand over *)

\* SQL NULL
NULL == "NULL"

\* SQL NULL in a BLOB column of bytes, and in an integer expression (a value
\* that no stored integer takes)
NULL_BLOB == <<-1>>
NULL_INT == -(256 * 256)

\* Widths.  A u64 is followed with U64_BYTES bytes instead of 8, and a public
\* key or a randomness with HASH_LEN bytes instead of 32.
U64_BYTES == 2
U64_MODULUS == 256 * 256
HASH_LEN == 2

\* A public key, a randomness: HASH_LEN bytes
Bytes(b) == [i \in 1 .. HASH_LEN |-> b]

\* header::GrandpaAuthority and header::BabeAuthority
Authority(public_key, weight) == [public_key |-> public_key, weight |-> weight]

\* header::AuraAuthority
AuraAuthority(public_key) == [public_key |-> public_key]

\* Option<T>
None == <<"None">>
Some(x) == <<"Some", x>>

\* The items of a header digest
BabePreDigest(slot_number) == [item |-> "BabePreDigest", slot_number |-> slot_number]

NextEpochData(authorities, randomness) ==
    [item |-> "BabeConsensus", log |-> "NextEpochData",
     authorities |-> authorities, randomness |-> randomness]

NextConfigData(c, allowed_slots) ==
    [item |-> "BabeConsensus", log |-> "NextConfigData",
     c |-> c, allowed_slots |-> allowed_slots]

ScheduledChange(delay, next_authorities) ==
    [item |-> "GrandpaConsensus", log |-> "ScheduledChange",
     delay |-> delay, next_authorities |-> next_authorities]

\* The headers of the universe, by hash.  A header blob is the record; the
\* hash of a header is injective.  "h00" is the all-zero parent hash of a
\* genesis header; it is the hash of no header.
HeaderOf ==
    [hG0 |-> [number |-> 0, parent_hash |-> "h00", state_root |-> "s0",
              digest |-> << >>],
     hA1 |-> [number |-> 1, parent_hash |-> "hG0", state_root |-> "s1",
              digest |-> <<ScheduledChange(0, <<Authority(Bytes(2), 1)>>)>>],
     hB1 |-> [number |-> 1, parent_hash |-> "hG0", state_root |-> "s2",
              digest |-> <<ScheduledChange(0, <<Authority(Bytes(2), 3),
                                                Authority(Bytes(1), 1)>>)>>],
     hB2 |-> [number |-> 2, parent_hash |-> "hB1", state_root |-> "s1",
              digest |-> << >>],
     hB3 |-> [number |-> 3, parent_hash |-> "hB2", state_root |-> "s1",
              digest |-> << >>]]

Hashes == DOMAIN HeaderOf

Headers == {HeaderOf[h] : h \in Hashes}

\* The headers of a chain whose blocks carry BABE epoch information: hE1 ends
\* epoch 0 and hE2 ends epoch 1 with a new configuration.
BabeHeaderOf ==
    [hE1 |-> [number |-> 1, parent_hash |-> "hG0", state_root |-> "s0",
              digest |-> <<BabePreDigest(10),
                           NextEpochData(<<Authority(Bytes(1), 1)>>, Bytes(7))>>],
     hE2 |-> [number |-> 2, parent_hash |-> "hE1", state_root |-> "s0",
              digest |-> <<BabePreDigest(15),
                           NextEpochData(<<Authority(Bytes(2), 1),
                                           Authority(Bytes(1), 2)>>, Bytes(8)),
                           NextConfigData(<<1, 2>>, "PrimaryAndSecondaryVrfSlots")>>]]

BabeHashes == DOMAIN BabeHeaderOf

\* Every header of the universe, by hash
AnyHeaderOf == HeaderOf @@ BabeHeaderOf

\* header::hash_from_scale_encoded_header
hash_from_scale_encoded_header(scale_encoded_header) ==
    CHOOSE h \in Hashes \cup BabeHashes : AnyHeaderOf[h] = scale_encoded_header

\* The body of each block: the caller verified the block, so the extrinsics
\* handed over with a header are the ones its extrinsics root commits to.
ExtrinsicsOf ==
    [hG0 |-> << >>,
     hA1 |-> <<"y", "x">>,
     hB1 |-> <<"x">>,
     hB2 |-> << >>,
     hB3 |-> << >>,
     hE1 |-> << >>,
     hE2 |-> << >>]

\* insert is given the block's body
InsertBodies(header) == {ExtrinsicsOf[hash_from_scale_encoded_header(header)]}

\* reset is given the finalized block's body, or none when it is not known
ResetBodies(header) ==
    {<< >>, ExtrinsicsOf[hash_from_scale_encoded_header(header)]}

-----------------------------------------------------------------------------
(* Inputs: the chain information handed to initialize and reset *)

\* chain_information::BabeEpochInformation
BabeEpochInformation(epoch_index, start_slot_number, authorities, randomness, c, allowed_slots) ==
    [epoch_index |-> epoch_index, start_slot_number |-> start_slot_number,
     authorities |-> authorities, randomness |-> randomness,
     c |-> c, allowed_slots |-> allowed_slots]

\* chain_information::ChainInformationFinality
Outsourced == [kind |-> "Outsourced"]

Grandpa(after_finalized_block_authorities_set_id, finalized_triggered_authorities, finalized_scheduled_change) ==
    [kind |-> "Grandpa",
     after_finalized_block_authorities_set_id |-> after_finalized_block_authorities_set_id,
     finalized_triggered_authorities |-> finalized_triggered_authorities,
     finalized_scheduled_change |-> finalized_scheduled_change]

\* chain_information::ChainInformationConsensus
Unknown == [kind |-> "Unknown"]

Aura(finalized_authorities_list, slot_duration) ==
    [kind |-> "Aura", finalized_authorities_list |-> finalized_authorities_list,
     slot_duration |-> slot_duration]

Babe(slots_per_epoch, finalized_next_epoch_transition, finalized_block_epoch_information) ==
    [kind |-> "Babe", slots_per_epoch |-> slots_per_epoch,
     finalized_next_epoch_transition |-> finalized_next_epoch_transition,
     finalized_block_epoch_information |-> finalized_block_epoch_information]

\* chain_information::ChainInformation
ChainInformation(finalized_block_header, consensus, finality) ==
    [finalized_block_header |-> finalized_block_header,
     consensus |-> consensus, finality |-> finality]

\* The chain information of a chain without consensus metadata
PlainChainInformation(finalized_block_header) ==
    ChainInformation(finalized_block_header, Unknown, Outsourced)

\* The finality of the valid chain informations of the runs: the finalized
\* block of number 0 comes with the authorities set 0.
Finalities(number) ==
    {Outsourced,
     Grandpa(number, <<Authority(Bytes(1), 1),
                       Authority(Bytes(2), U64_MODULUS - 1)>>, None),
     Grandpa(number, << >>, Some(<<number + 2, <<Authority(Bytes(2), 1)>>>>))}

\* The consensus of the valid chain informations of the runs: the finalized
\* block of number 0 has no epoch of its own and is followed by epoch 0,
\* which has no start slot yet.
Consensuses(number) ==
    {Unknown,
     Aura(<<AuraAuthority(Bytes(2)), AuraAuthority(Bytes(1))>>, 6),
     IF number = 0
     THEN Babe(5, BabeEpochInformation(0, None, <<Authority(Bytes(1), 1)>>,
                                       Bytes(3), <<1, 4>>, "PrimarySlots"),
               None)
     ELSE Babe(5, BabeEpochInformation(number, Some(5 * number),
                                       <<Authority(Bytes(2), 1), Authority(Bytes(1), 300)>>,
                                       Bytes(4), <<1, 4>>, "PrimaryAndSecondaryPlainSlots"),
               Some(BabeEpochInformation(number - 1,
                                         IF number = 1 THEN None ELSE Some(5 * (number - 1)),
                                         <<Authority(Bytes(1), 1)>>,
                                         Bytes(3), <<1, 4>>, "PrimarySlots")))}

\* The valid chain informations whose finalized block is the header given
ValidChainInformations(finalized_block_header) ==
    {ChainInformation(finalized_block_header, consensus, finality) :
        consensus \in Consensuses(finalized_block_header.number),
        finality \in Finalities(finalized_block_header.number)}

-----------------------------------------------------------------------------
(* The database as a value, and plain accessors *)

Db == [blocks |-> blocks, blocks_body |-> blocks_body, meta |-> meta,
       consensus |-> consensus_meta,
       trie_node |-> trie_node, trie_node_storage |-> trie_node_storage,
       trie_node_child |-> trie_node_child]

has_block(db, hash) == hash \in DOMAIN db.blocks

finalized_num(db) == db.meta.finalized

\* SELECT hash FROM blocks WHERE number = ?
block_hashes_by_number(db, number) ==
    {h \in DOMAIN db.blocks : db.blocks[h].number = number}

\* SELECT hash FROM blocks WHERE number = (finalized): query_row takes the
\* first row of a query that states no order; every row is a possible result.
finalized_hash(db) == block_hashes_by_number(db, finalized_num(db))

best_block_hash(db) == db.meta.best

\* SELECT header FROM blocks WHERE hash = ?
block_header(db, hash) ==
    IF hash \in DOMAIN db.blocks THEN <<"Some", db.blocks[hash].header>>
    ELSE <<"None">>

block_scale_encoded_header(db, block_hash) == block_header(db, block_hash)

\* SELECT parent_hash FROM blocks WHERE hash = ?
block_parent(db, block_hash) ==
    IF block_hash \notin DOMAIN db.blocks THEN <<"None">>
    ELSE IF db.blocks[block_hash].parent_hash = NULL
         THEN <<"Corrupted">>    \* row.get::<_, [u8; 32]> of a NULL column
         ELSE <<"Some", db.blocks[block_hash].parent_hash>>

\* rows ordered by idx ascending
RECURSIVE OrderByIdx(_)
OrderByIdx(rows) ==
    IF rows = {} THEN << >>
    ELSE LET first == CHOOSE r \in rows : \A o \in rows : r.idx <= o.idx
         IN  <<first.extrinsic>> \o OrderByIdx(rows \ {first})

\* SELECT extrinsic FROM blocks_body WHERE hash = ? ORDER BY idx ASC; the
\* result is wrapped in Some whether or not the block is stored.
block_extrinsics(db, block_hash) ==
    <<"Some", OrderByIdx({r \in db.blocks_body : r.hash = block_hash})>>

\* SELECT hash FROM blocks WHERE number = ? AND is_best_chain = TRUE
best_block_hash_by_number(db, block_number) ==
    {h \in DOMAIN db.blocks : /\ db.blocks[h].number = block_number
                              /\ db.blocks[h].is_best_chain = "TRUE"}

\* A body stored with the indices counted from the end
BodyRowsReversed(hash, body) ==
    {[hash |-> hash, idx |-> Len(body) - i, extrinsic |-> body[i]] :
         i \in DOMAIN body}

\* rows (hash, idx, extrinsic) of a body, idx from enumerate()
BodyRows(hash, body) ==
    {[hash |-> hash, idx |-> i - 1, extrinsic |-> body[i]] : i \in DOMAIN body}

\* A transaction whose writes survive an early return
RollbackKeepsWrites(before, tentative) == tentative

\* A transaction dropped without commit is rolled back.
Rollback(before, tentative) == before

-----------------------------------------------------------------------------
(* Consensus metadata: the meta keys and the side tables *)

\* No consensus meta key and no row in the side tables
NoConsensus ==
    [grandpa_authorities_set_id |-> NULL_INT,
     grandpa_scheduled_target |-> NULL_INT,
     grandpa_triggered_authorities |-> {},
     grandpa_scheduled_authorities |-> {},
     aura_slot_duration |-> NULL_INT,
     aura_finalized_authorities |-> {},
     babe_slots_per_epoch |-> NULL_INT,
     babe_finalized_epoch |-> NULL_BLOB,
     babe_finalized_next_epoch |-> NULL_BLOB]

\* i64::from_ne_bytes(value.to_ne_bytes()): the number as stored
ToI64(value) == IF value >= U64_MODULUS \div 2 THEN value - U64_MODULUS ELSE value

\* u64::from_ne_bytes(value.to_ne_bytes()): the number as read
FromI64(value) == IF value < 0 THEN value + U64_MODULUS ELSE value

\* value_number + 1 as SQLite computes it: past the largest integer the sum
\* is a REAL, which no later read of the key as an integer accepts
REAL_OVERFLOW == 256 * 256

SqlAddOne(value_number) ==
    IF value_number = U64_MODULUS \div 2 - 1 THEN REAL_OVERFLOW
    ELSE value_number + 1

\* meta_get_number: None when the key has no row
meta_get_number(value_number) ==
    IF value_number = NULL_INT THEN None ELSE Some(FromI64(value_number))

\* INSERT INTO grandpa_..._authorities(idx, public_key, weight), idx from
\* enumerate()
AuthorityRows(list) ==
    {[idx |-> i - 1, public_key |-> list[i].public_key,
      weight |-> ToI64(list[i].weight)] : i \in DOMAIN list}

\* INSERT INTO aura_finalized_authorities(idx, public_key)
AuraAuthorityRows(list) ==
    {[idx |-> i - 1, public_key |-> list[i].public_key] : i \in DOMAIN list}

\* The rows of a side table in the order of idx
RECURSIVE OrderRowsByIdx(_)
OrderRowsByIdx(rows) ==
    IF rows = {} THEN << >>
    ELSE LET first == CHOOSE r \in rows : \A o \in rows : r.idx <= o.idx
         IN  <<first>> \o OrderRowsByIdx(rows \ {first})

\* SELECT public_key, weight FROM ... ORDER BY idx ASC, decoded: an error
\* when a weight is zero
GrandpaAuthoritiesOf(rows) ==
    LET ordered == OrderRowsByIdx(rows)
    IN  IF \E r \in rows : FromI64(r.weight) = 0 THEN <<"Err", "InvalidNumber">>
        ELSE <<"Ok", [i \in DOMAIN ordered |->
                         Authority(ordered[i].public_key, FromI64(ordered[i].weight))]>>

\* SELECT public_key FROM aura_finalized_authorities ORDER BY idx ASC
aura_finalized_authorities(rows) ==
    LET ordered == OrderRowsByIdx(rows)
    IN  [i \in DOMAIN ordered |-> AuraAuthority(ordered[i].public_key)]

\* to_le_bytes of a u64
to_le_bytes(n) == [i \in 1 .. U64_BYTES |-> (n \div (256 ^ (i - 1))) % 256]

\* nom::number::streaming::le_u64 on the bytes given
RECURSIVE le_u64(_)
le_u64(bytes) ==
    IF bytes = << >> THEN 0 ELSE Head(bytes) + 256 * le_u64(Tail(bytes))

\* util::encode_scale_compact_usize, for lengths below 2^14
encode_scale_compact_usize(n) ==
    IF n < 64 THEN <<4 * n>>
    ELSE <<(4 * n + 1) % 256, (4 * n + 1) \div 256>>

\* The bytes of a list of authorities, one after the other
RECURSIVE EncodeAuthorities(_)
EncodeAuthorities(authorities) ==
    IF authorities = << >> THEN << >>
    ELSE Head(authorities).public_key \o to_le_bytes(Head(authorities).weight)
            \o EncodeAuthorities(Tail(authorities))

AllowedSlotsByte(allowed_slots) ==
    CASE allowed_slots = "PrimarySlots" -> 0
      [] allowed_slots = "PrimaryAndSecondaryPlainSlots" -> 1
      [] allowed_slots = "PrimaryAndSecondaryVrfSlots" -> 2

AllowedSlotsOf(byte) ==
    CASE byte = 0 -> "PrimarySlots"
      [] byte = 1 -> "PrimaryAndSecondaryPlainSlots"
      [] byte = 2 -> "PrimaryAndSecondaryVrfSlots"

encode_babe_epoch_information(info) ==
    to_le_bytes(info.epoch_index)
      \o (IF info.start_slot_number = None THEN <<0>>
          ELSE <<1>> \o to_le_bytes(info.start_slot_number[2]))
      \o encode_scale_compact_usize(Len(info.authorities))
      \o EncodeAuthorities(info.authorities)
      \o info.randomness
      \o to_le_bytes(info.c[1]) \o to_le_bytes(info.c[2])
      \o <<AllowedSlotsByte(info.allowed_slots)>>

\* BabeEpochInformation::validate, for the values of the runs: the constant
\* c is a fraction that is at most 1
BabeEpochInformationValidate(info) == info.c[1] <= info.c[2]

\* decode_babe_epoch_information: the fields one after the other, all the
\* bytes consumed, the decoded value validated
decode_babe_epoch_information(value) ==
    LET tag_at == U64_BYTES + 1
        has_tag == value # NULL_BLOB /\ Len(value) >= tag_at
        tag == value[tag_at]
        compact_at == IF tag = 1 THEN tag_at + U64_BYTES + 1 ELSE tag_at + 1
        has_compact == has_tag /\ tag \in {0, 1} /\ Len(value) >= compact_at
        mode == value[compact_at] % 4
        compact_len == IF mode = 0 THEN 1 ELSE 2
        has_num == has_compact /\ mode \in {0, 1}
                     /\ Len(value) >= compact_at + compact_len - 1
        num_elems == le_u64(SubSeq(value, compact_at, compact_at + compact_len - 1)) \div 4
        authorities_at == compact_at + compact_len
        authority_len == HASH_LEN + U64_BYTES
        randomness_at == authorities_at + num_elems * authority_len
        c_at == randomness_at + HASH_LEN
        allowed_slots_at == c_at + 2 * U64_BYTES
        complete == has_num /\ Len(value) = allowed_slots_at
                      /\ value[allowed_slots_at] \in {0, 1, 2}
        AuthorityAt(i) ==
            LET at == authorities_at + (i - 1) * authority_len
            IN  Authority(SubSeq(value, at, at + HASH_LEN - 1),
                          le_u64(SubSeq(value, at + HASH_LEN, at + authority_len - 1)))
        decoded ==
            BabeEpochInformation(
                le_u64(SubSeq(value, 1, U64_BYTES)),
                IF tag = 1 THEN Some(le_u64(SubSeq(value, tag_at + 1, tag_at + U64_BYTES)))
                ELSE None,
                [i \in 1 .. num_elems |-> AuthorityAt(i)],
                SubSeq(value, randomness_at, c_at - 1),
                <<le_u64(SubSeq(value, c_at, c_at + U64_BYTES - 1)),
                  le_u64(SubSeq(value, c_at + U64_BYTES, allowed_slots_at - 1))>>,
                AllowedSlotsOf(value[allowed_slots_at]))
    IN  IF complete /\ BabeEpochInformationValidate(decoded)
        THEN <<"Ok", decoded>>
        ELSE <<"Err", "InvalidBabeEpochInformation">>

-----------------------------------------------------------------------------
(* to_chain_information *)

\* grandpa_finalized_scheduled_change: the scheduled authorities, read only
\* when the meta key grandpa_scheduled_target is present
grandpa_finalized_scheduled_change(cons) ==
    LET height == meta_get_number(cons.grandpa_scheduled_target)
        out == GrandpaAuthoritiesOf(cons.grandpa_scheduled_authorities)
    IN  IF height = None THEN <<"Ok", None>>
        ELSE IF out[1] = "Err" THEN out
        ELSE <<"Ok", Some(<<height[2], out[2]>>)>>

\* The finality that to_chain_information reads back
FinalityOf(cons) ==
    LET set_id == meta_get_number(cons.grandpa_authorities_set_id)
        triggered == GrandpaAuthoritiesOf(cons.grandpa_triggered_authorities)
        scheduled == grandpa_finalized_scheduled_change(cons)
    IN  IF cons.grandpa_authorities_set_id = REAL_OVERFLOW
        THEN <<"Err", "Internal">>
        ELSE IF triggered[1] = "Err" THEN triggered
        ELSE IF scheduled[1] = "Err" THEN scheduled
        ELSE IF set_id # None
        THEN <<"Ok", Grandpa(set_id[2], triggered[2], scheduled[2])>>
        ELSE IF triggered[2] = << >> /\ scheduled[2] = None
        THEN <<"Ok", Outsourced>>
        ELSE <<"Err", "ConsensusAlgorithmMix">>

\* The consensus that to_chain_information reads back
ConsensusOf(cons) ==
    LET slot_duration == meta_get_number(cons.aura_slot_duration)
        slots_per_epoch == meta_get_number(cons.babe_slots_per_epoch)
        next_epoch == decode_babe_epoch_information(cons.babe_finalized_next_epoch)
        epoch == decode_babe_epoch_information(cons.babe_finalized_epoch)
    IN  IF /\ slot_duration = None
           /\ slots_per_epoch # None
           /\ cons.babe_finalized_next_epoch # NULL_BLOB
        THEN IF slots_per_epoch[2] = 0 THEN <<"Err", "InvalidNumber">>
             ELSE IF next_epoch[1] = "Err" THEN next_epoch
             ELSE IF cons.babe_finalized_epoch # NULL_BLOB /\ epoch[1] = "Err"
             THEN epoch
             ELSE <<"Ok", Babe(slots_per_epoch[2], next_epoch[2],
                               IF cons.babe_finalized_epoch = NULL_BLOB THEN None
                               ELSE Some(epoch[2]))>>
        ELSE IF /\ slot_duration # None
                /\ slots_per_epoch = None
                /\ cons.babe_finalized_next_epoch = NULL_BLOB
        THEN IF slot_duration[2] = 0 THEN <<"Err", "InvalidNumber">>
             ELSE <<"Ok", Aura(aura_finalized_authorities(cons.aura_finalized_authorities),
                               slot_duration[2])>>
        ELSE IF /\ slot_duration = None
                /\ slots_per_epoch = None
                /\ cons.babe_finalized_next_epoch = NULL_BLOB
        THEN <<"Ok", Unknown>>
        ELSE <<"Err", "ConsensusAlgorithmMix">>

\* ValidChainInformation::try_from: the chain informations that the runs
\* hand over are valid; another one is accepted or refused
ValidChainInformationTryFrom(chain_information) ==
    IF chain_information
         \in ValidChainInformations(chain_information.finalized_block_header)
    THEN {<<"Ok", chain_information>>}
    ELSE {<<"Ok", chain_information>>, <<"Err", "InvalidChainInformation">>}

\* to_chain_information: the results that the call can return, one for each
\* row that the query of the finalized hash can take
to_chain_information(db, finalized_block_hash) ==
    LET finality == FinalityOf(db.consensus)
        cons == ConsensusOf(db.consensus)
    IN  IF finalized_hash(db) = {} THEN {<<"Err", "InvalidFinalizedNum">>}
        ELSE UNION {
            IF value # finalized_block_hash THEN {<<"Err", "IncompleteStorage">>}
            ELSE IF finality[1] = "Err" THEN {finality}
            ELSE IF cons[1] = "Err" THEN {cons}
            ELSE ValidChainInformationTryFrom(
                     ChainInformation(db.blocks[finalized_block_hash].header,
                                      cons[2], finality[2]))
            : value \in finalized_hash(db)}

-----------------------------------------------------------------------------
(* Best-chain reassignment: set_best_chain *)

\* COALESCE(b.parent_hash, fallback) where b is the row LEFT JOINed on
\* b.hash = hash: the fallback is taken when hash is NULL, when no such block
\* is stored, and when the stored block's parent_hash is NULL.
ParentOr(db, hash, fallback) ==
    IF hash \in DOMAIN db.blocks /\ db.blocks[hash].parent_hash # NULL
    THEN db.blocks[hash].parent_hash
    ELSE fallback

\* WHERE clause of the recursive member of `changes`
ChangesContinues(db, new_best, current_best, row) ==
    \/ row.block_to_include_number # row.block_to_retract_number
    \/ ParentOr(db, row.block_to_include, new_best)
         # ParentOr(db, row.block_to_retract, current_best)

\* SELECT list of the recursive member of `changes`
ChangesNext(db, new_best, current_best, row) ==
    LET inc_n == row.block_to_include_number
        ret_n == row.block_to_retract_number
    IN  [block_to_include |->
            IF inc_n >= ret_n THEN ParentOr(db, row.block_to_include, new_best)
            ELSE row.block_to_include,
         block_to_retract |->
            IF ret_n >= inc_n THEN ParentOr(db, row.block_to_retract, current_best)
            ELSE row.block_to_retract,
         block_to_include_number |-> IF inc_n >= ret_n THEN inc_n - 1 ELSE inc_n,
         block_to_retract_number |-> IF ret_n >= inc_n THEN ret_n - 1 ELSE ret_n]

\* What decides the rest of the walk from a row: the two pointers and the
\* difference of the two numbers.  A walk that meets the same key twice
\* produces rows forever.
WalkKey(row) ==
    <<row.block_to_include, row.block_to_retract,
      row.block_to_include_number - row.block_to_retract_number>>

\* The rows of `changes` from `row` on; ends = FALSE when the recursion
\* never stops producing rows.
RECURSIVE ChangesFrom(_, _, _, _, _)
ChangesFrom(db, new_best, current_best, row, seen) ==
    IF ~ChangesContinues(db, new_best, current_best, row)
    THEN [ends |-> TRUE, rows |-> {row}]
    ELSE LET next == ChangesNext(db, new_best, current_best, row)
         IN  IF WalkKey(next) \in seen
             THEN [ends |-> FALSE, rows |-> {}]
             ELSE LET rest == ChangesFrom(db, new_best, current_best, next,
                                          seen \cup {WalkKey(next)})
                  IN  [ends |-> rest.ends, rows |-> {row} \cup rest.rows]

\* WITH RECURSIVE changes(...): the non-recursive member joins the two blocks
\* and yields no row when either is not stored.
changes(db, new_best, current_best) ==
    IF new_best \in DOMAIN db.blocks /\ current_best \in DOMAIN db.blocks
    THEN LET first == [block_to_include |-> NULL,
                       block_to_retract |-> NULL,
                       block_to_include_number |-> db.blocks[new_best].number + 1,
                       block_to_retract_number |-> db.blocks[current_best].number + 1]
         IN  ChangesFrom(db, new_best, current_best, first, {WalkKey(first)})
    ELSE [ends |-> TRUE, rows |-> {}]

\* Rows of `changes` joined to block `hash` by
\* WHERE blocks.hash = block_to_include OR blocks.hash = block_to_retract
ChangesOf(rows, hash) ==
    {r \in rows : r.block_to_include = hash \/ r.block_to_retract = hash}

\* SET is_best_chain = (blocks.hash = changes.block_to_include): NULL when
\* block_to_include is NULL.
NewFlag(row, hash) ==
    IF row.block_to_include = NULL THEN "NULL"
    ELSE IF row.block_to_include = hash THEN "TRUE" ELSE "FALSE"

\* The values the UPDATE may give a block: one joined row is used, chosen
\* arbitrarily when several join; a block that no row joins keeps its flag.
FlagOptions(db, rows, hash) ==
    IF ChangesOf(rows, hash) = {} THEN {db.blocks[hash].is_best_chain}
    ELSE {NewFlag(r, hash) : r \in ChangesOf(rows, hash)}

\* The outcomes of set_best_chain: the UPDATE, then meta_set_blob("best").
set_best_chain(db, new_best_block_hash) ==
    LET current_best == db.meta.best
        ch == changes(db, new_best_block_hash, current_best)
        stored == DOMAIN db.blocks
    IN  IF ~ch.ends THEN {[result |-> "Hang", db |-> db]}
        ELSE {IF not_null /\ \E h \in stored : f[h] = "NULL"
              THEN [result |-> "Corrupted", db |-> db]
              ELSE [result |-> "Ok",
                    db |-> [db EXCEPT
                        !.blocks = [h \in stored |->
                            [db.blocks[h] EXCEPT !.is_best_chain = f[h]]],
                        !.meta.best = new_best_block_hash]]
              : f \in {g \in [stored -> {"TRUE", "FALSE", "NULL"}] :
                         \A h \in stored : g[h] \in FlagOptions(db, ch.rows, h)}}

-----------------------------------------------------------------------------
(* insert *)

\* INSERT INTO blocks(...) VALUES (?, ?, ?, ?, ?, FALSE, NULL)
InsertedRow(header, scale_encoded_header) ==
    [number |-> header.number,
     parent_hash |-> header.parent_hash,
     state_trie_root_hash |-> header.state_root,
     header |-> scale_encoded_header,
     is_best_chain |-> "FALSE",
     justification |-> NULL]

\* The two checks of insert taken in the other order
InsertCheckParentFirst(db, block_hash, parent_hash) ==
    IF ~has_block(db, parent_hash) THEN "MissingParent"
    ELSE IF has_block(db, block_hash) THEN "Duplicate"
    ELSE "Pass"

\* The two checks insert makes before it writes: the block must not be
\* stored yet, then its parent must be.
InsertCheck(db, block_hash, parent_hash) ==
    IF has_block(db, block_hash) THEN "Duplicate"
    ELSE IF ~has_block(db, parent_hash) THEN "MissingParent"
    ELSE "Pass"

\* The outcomes of insert: the value returned and the database it leaves.
insert(db, scale_encoded_header, is_new_best, body) ==
    LET block_hash == hash_from_scale_encoded_header(scale_encoded_header)
        header == scale_encoded_header
        tentative ==
            [db EXCEPT
                !.blocks = block_hash :> InsertedRow(header, scale_encoded_header)
                             @@ db.blocks,
                !.blocks_body = db.blocks_body \cup BodyRows(block_hash, body)]
        check == InsertCheck(db, block_hash, header.parent_hash)
    IN  IF check # "Pass"
        THEN {[result |-> check, db |-> Rollback(db, db)]}
        ELSE IF \E r \in db.blocks_body : r.hash = block_hash /\ r.idx < Len(body)
        THEN {[result |-> "Panic", db |-> Rollback(db, tentative)]}
        ELSE IF ~is_new_best
        THEN {[result |-> "Ok", db |-> tentative]}
        ELSE IF header.number <= finalized_num(tentative)
        THEN {[result |-> "BestNotInFinalizedChain", db |-> Rollback(db, tentative)]}
        ELSE {IF o.result = "Ok" THEN o
              ELSE [result |-> o.result, db |-> Rollback(db, tentative)]
              : o \in set_best_chain(tentative, block_hash)}

-----------------------------------------------------------------------------
(* set_finalized *)

\* The items of a digest that satisfy a predicate, in order
RECURSIVE DigestItems(_, _, _)
DigestItems(digest, item, log) ==
    IF digest = << >> THEN << >>
    ELSE (IF Head(digest).item = item /\ (log = NULL \/ Head(digest).log = log)
          THEN <<Head(digest)>> ELSE << >>)
         \o DigestItems(Tail(digest), item, log)

\* digest.babe_epoch_information(): the NextEpochData of the header with its
\* NextConfigData, if the header has one
babe_epoch_information(digest) ==
    LET new_epoch == DigestItems(digest, "BabeConsensus", "NextEpochData")
        next_config == DigestItems(digest, "BabeConsensus", "NextConfigData")
    IN  IF new_epoch = << >> THEN None
        ELSE Some(<<new_epoch[1],
                    IF next_config = << >> THEN None ELSE Some(next_config[1])>>)

\* digest.babe_pre_runtime()
babe_pre_runtime(digest) ==
    LET pre == DigestItems(digest, "BabePreDigest", NULL)
    IN  IF pre = << >> THEN None ELSE Some(pre[1])

\* The BABE part of the loop of set_finalized on one newly finalized header
FinalizeBabe(cons, finalized_header) ==
    LET info == babe_epoch_information(finalized_header.digest)
        new_epoch == info[2][1]
        next_config == info[2][2]
        epoch == cons.babe_finalized_next_epoch
        decoded == decode_babe_epoch_information(epoch)
        decoded_epoch == decoded[2]
        pre == babe_pre_runtime(finalized_header.digest)
        slots_per_epoch == meta_get_number(cons.babe_slots_per_epoch)
        start == IF decoded_epoch.start_slot_number = None
                 THEN pre[2].slot_number
                 ELSE decoded_epoch.start_slot_number[2]
        next == BabeEpochInformation(
                    decoded_epoch.epoch_index + 1,
                    Some(start + slots_per_epoch[2]),
                    new_epoch.authorities,
                    new_epoch.randomness,
                    IF next_config # None THEN next_config[2].c
                    ELSE decoded_epoch.c,
                    IF next_config # None THEN next_config[2].allowed_slots
                    ELSE decoded_epoch.allowed_slots)
    IN  IF info = None THEN <<"Ok", cons>>
        ELSE IF epoch = NULL_BLOB THEN <<"Panic">>
        ELSE IF decoded[1] = "Err" THEN <<"Corrupted">>
        ELSE IF pre = None THEN <<"Panic">>
        ELSE IF slots_per_epoch = None THEN <<"Panic">>
        ELSE IF slots_per_epoch[2] = 0 THEN <<"Corrupted">>
        ELSE IF decoded_epoch.epoch_index + 1 >= U64_MODULUS THEN <<"Panic">>
        ELSE IF start + slots_per_epoch[2] >= U64_MODULUS THEN <<"Panic">>
        ELSE <<"Ok", [cons EXCEPT
                      !.babe_finalized_epoch = epoch,
                      !.babe_finalized_next_epoch =
                          encode_babe_epoch_information(next)]>>

\* The GRANDPA part of the loop on the scheduled changes of one header
RECURSIVE FinalizeGrandpaItems(_, _)
FinalizeGrandpaItems(cons, items) ==
    IF items = << >> THEN <<"Ok", cons>>
    ELSE IF Head(items).delay # 0 THEN <<"Panic">>
    ELSE FinalizeGrandpaItems(
             [cons EXCEPT
              !.grandpa_triggered_authorities =
                  AuthorityRows(Head(items).next_authorities),
              !.grandpa_authorities_set_id = SqlAddOne(@)],
             Tail(items))

FinalizeGrandpa(cons, finalized_header) ==
    IF cons.grandpa_authorities_set_id = NULL_INT THEN <<"Ok", cons>>
    ELSE IF cons.grandpa_authorities_set_id = REAL_OVERFLOW THEN <<"Corrupted">>
    ELSE FinalizeGrandpaItems(cons,
             DigestItems(finalized_header.digest, "GrandpaConsensus", "ScheduledChange"))

\* The body of the loop of set_finalized on one newly finalized header
FinalizeHeader(cons, finalized_header) ==
    LET babe == FinalizeBabe(cons, finalized_header)
    IN  IF babe[1] # "Ok" THEN babe
        ELSE FinalizeGrandpa(babe[2], finalized_header)

\* The loop of set_finalized over the heights: at each height the first row
\* of block_hashes_by_number is taken, whichever the query returns first.
\* debug_assert_eq!(list.len(), 1) panics in a build with debug assertions,
\* and an empty list is Corrupted(MissingBlockHeader) otherwise.
RECURSIVE FinalizeHeights(_, _, _, _)
FinalizeHeights(db, cons, height, new_finalized_number) ==
    LET list == block_hashes_by_number(db, height)
    IN  IF height > new_finalized_number THEN {<<"Ok", cons>>}
        ELSE IF debug_assertions /\ Cardinality(list) # 1 THEN {<<"Panic">>}
        ELSE IF list = {} THEN {<<"Corrupted">>}
        ELSE UNION {
            LET o == FinalizeHeader(cons, db.blocks[block_hash].header)
            IN  IF o[1] = "Ok"
                THEN FinalizeHeights(db, o[2], height + 1, new_finalized_number)
                ELSE {o}
            : block_hash \in list}

\* A write of `finalized` that also drops the bodies of the blocks at or below
\* the new finalized number
meta_set_number_pruning(db, key, value) ==
    [db EXCEPT !.meta[key] = value,
               !.blocks_body = {r \in @ : db.blocks[r.hash].number > value}]

\* INSERT OR REPLACE INTO meta (key, value_number) VALUES (?, ?): one row of
\* meta is written, nothing else
meta_set_number(db, key, value) == [db EXCEPT !.meta[key] = value]

\* A set_finalized without the check against the current finalized number
set_finalized_revert_allowed(db, new_finalized_block_hash) ==
    IF ~has_block(db, new_finalized_block_hash)
    THEN {[result |-> "UnknownBlock", db |-> Rollback(db, db)]}
    ELSE
    LET new_finalized_header == db.blocks[new_finalized_block_hash].header
        current_finalized == finalized_num(db)
        tentative == meta_set_number(db, "finalized", new_finalized_header.number)
    IN  IF new_finalized_header.number = current_finalized
        THEN {[result |-> "Ok", db |-> db]}
        ELSE {IF o[1] = "Ok"
              THEN [result |-> "Ok", db |-> [tentative EXCEPT !.consensus = o[2]]]
              ELSE [result |-> o[1], db |-> Rollback(db, tentative)]
              : o \in FinalizeHeights(tentative, tentative.consensus,
                                      current_finalized + 1,
                                      new_finalized_header.number)}

\* The outcomes of set_finalized: `finalized` moves to the number of the
\* block, and the loop over the newly finalized heights updates the consensus
\* metadata.  A panic or an error drops the transaction.
set_finalized(db, new_finalized_block_hash) ==
    IF ~has_block(db, new_finalized_block_hash)
    THEN {[result |-> "UnknownBlock", db |-> Rollback(db, db)]}
    ELSE
    LET new_finalized_header == db.blocks[new_finalized_block_hash].header
        current_finalized == finalized_num(db)
        tentative == meta_set_number(db, "finalized", new_finalized_header.number)
    IN  IF new_finalized_header.number = current_finalized
        THEN {[result |-> "Ok", db |-> db]}
        ELSE IF new_finalized_header.number < current_finalized
        THEN {[result |-> "RevertForbidden", db |-> Rollback(db, db)]}
        ELSE {IF o[1] = "Ok"
              THEN [result |-> "Ok", db |-> [tentative EXCEPT !.consensus = o[2]]]
              ELSE [result |-> o[1], db |-> Rollback(db, tentative)]
              : o \in FinalizeHeights(tentative, tentative.consensus,
                                      current_finalized + 1,
                                      new_finalized_header.number)}

-----------------------------------------------------------------------------
(* Inputs of insert_trie_nodes *)

\* children_merkle_values: one entry per nibble, NULL where there is no child
Children(f) == [n \in 0 .. 15 |-> IF n \in DOMAIN f THEN f[n] ELSE NULL]

NoValue == [kind |-> "NoValue"]

Value(value, references_merkle_value) ==
    [kind |-> "Value", value |-> value,
     references_merkle_value |-> references_merkle_value]

InsertTrieNode(merkle_value, partial_key_nibbles, storage_value, children) ==
    [merkle_value |-> merkle_value,
     partial_key_nibbles |-> partial_key_nibbles,
     storage_value |-> storage_value,
     children_merkle_values |-> Children(children)]

\* The trie nodes callers hand over.  The state of hG0 (root s0) is
\* {<<1>> : v0}; of hA1, hB2, hB3 (root s1) {<<0,1>> : vx, <<1>> : vy,
\* <<1,2>> : vz}; of hB1 (root s2) {<< >> : v2, <<0,1>> : vx, and at <<2,0>>
\* the child trie of root t}.  s1 and s2 share the node x.  s1Alt is an entry
\* that names the Merkle value s1 with other contents, and n16 an entry whose
\* partial key holds the value 16, which is no nibble.
NodeOf ==
    [s0 |-> InsertTrieNode("s0", <<1>>, Value("v0", FALSE), << >>),
     s1 |-> InsertTrieNode("s1", << >>, NoValue, (0 :> "x") @@ (1 :> "y")),
     x  |-> InsertTrieNode("x", <<1>>, Value("vx", FALSE), << >>),
     y  |-> InsertTrieNode("y", << >>, Value("vy", FALSE), (2 :> "z")),
     z  |-> InsertTrieNode("z", << >>, Value("vz", FALSE), << >>),
     s2 |-> InsertTrieNode("s2", << >>, Value("v2", FALSE), (0 :> "x") @@ (2 :> "w")),
     w  |-> InsertTrieNode("w", <<0>>, Value("t", TRUE), << >>),
     t  |-> InsertTrieNode("t", << >>, Value("vt", FALSE), << >>),
     s1Alt |-> InsertTrieNode("s1", <<2>>, Value("vAlt", FALSE), (2 :> "z")),
     n16 |-> InsertTrieNode("n16", <<1, 16>>, Value("v16", FALSE), << >>)]

\* The batches given to insert_trie_nodes, as the iterator yields them
Batches ==
    {<<NodeOf["s0"]>>,
     <<NodeOf["z"], NodeOf["y"], NodeOf["x"], NodeOf["s1"]>>,
     <<NodeOf["t"], NodeOf["w"], NodeOf["s2"]>>,
     <<NodeOf["w"], NodeOf["s2"]>>,
     <<NodeOf["s1Alt"]>>}

\* trie_entries_version
Versions == {0, 1}

\* The calls of insert_trie_nodes that the runs make: the state of the
\* genesis block under either version, the state of hA1 under version 0,
\* the other batches under version 1.
InsertTrieNodesCalls ==
    {c \in [new_trie_nodes : Batches, trie_entries_version : Versions] :
        \/ c.new_trie_nodes = <<NodeOf["s0"]>>
        \/ c.trie_entries_version = (IF Len(c.new_trie_nodes) = 4 THEN 0 ELSE 1)}

-----------------------------------------------------------------------------
(* insert_trie_nodes *)

\* An insertion that writes the child rows at the child numbers following
\* those the node already has, instead of at the index of each child
InsertOneTrieNodeAppendingChildren(db, trie_node_entry, trie_entries_version) ==
    LET hash == trie_node_entry.merkle_value
        storage_value == trie_node_entry.storage_value
        children == trie_node_entry.children_merkle_values
        existing == Cardinality({r \in db.trie_node_child : r.hash = hash})
    IN  [db EXCEPT
          !.trie_node =
              IF hash \in DOMAIN db.trie_node THEN @
              ELSE hash :> trie_node_entry.partial_key_nibbles @@ @,
          !.trie_node_storage =
              IF storage_value.kind = "NoValue" \/ hash \in DOMAIN @ THEN @
              ELSE hash :>
                     [value |-> IF ~storage_value.references_merkle_value
                                THEN storage_value.value ELSE NULL,
                      trie_root_ref |-> IF storage_value.references_merkle_value
                                        THEN storage_value.value ELSE NULL,
                      trie_entry_version |-> trie_entries_version] @@ @,
          !.trie_node_child = @ \cup
              {[hash |-> hash, child_num |-> existing + n, child_hash |-> children[n]] :
                  n \in {m \in DOMAIN children :
                            children[m] # NULL /\ existing + m < 16}}]

\* The three INSERT OR IGNORE of one trie node: a row is written only where
\* no row with the same primary key exists.
InsertOneTrieNode(db, trie_node_entry, trie_entries_version) ==
    LET hash == trie_node_entry.merkle_value
        storage_value == trie_node_entry.storage_value
        children == trie_node_entry.children_merkle_values
    IN  [db EXCEPT
          !.trie_node =
              IF hash \in DOMAIN db.trie_node THEN @
              ELSE hash :> trie_node_entry.partial_key_nibbles @@ @,
          !.trie_node_storage =
              IF storage_value.kind = "NoValue" \/ hash \in DOMAIN @ THEN @
              ELSE hash :>
                     [value |-> IF ~storage_value.references_merkle_value
                                THEN storage_value.value ELSE NULL,
                      trie_root_ref |-> IF storage_value.references_merkle_value
                                        THEN storage_value.value ELSE NULL,
                      trie_entry_version |-> trie_entries_version] @@ @,
          !.trie_node_child = @ \cup
              {[hash |-> hash, child_num |-> n, child_hash |-> children[n]] :
                  n \in {m \in DOMAIN children :
                            /\ children[m] # NULL
                            /\ ~\E r \in db.trie_node_child :
                                    r.hash = hash /\ r.child_num = m}}]

RECURSIVE InsertAllTrieNodes(_, _, _)
InsertAllTrieNodes(db, new_trie_nodes, trie_entries_version) ==
    IF new_trie_nodes = << >> THEN db
    ELSE InsertAllTrieNodes(
             InsertOneTrieNode(db, Head(new_trie_nodes), trie_entries_version),
             Tail(new_trie_nodes), trie_entries_version)

\* insert_trie_nodes: the nodes in the order of the iterator, in one
\* transaction; the assert! on a nibble above 15 panics and nothing is kept.
insert_trie_nodes(db, new_trie_nodes, trie_entries_version) ==
    IF \E i \in DOMAIN new_trie_nodes :
          \E j \in DOMAIN new_trie_nodes[i].partial_key_nibbles :
              new_trie_nodes[i].partial_key_nibbles[j] >= 16
    THEN [result |-> "Panic", db |-> Rollback(db, db)]
    ELSE [result |-> "Ok",
          db |-> InsertAllTrieNodes(db, new_trie_nodes, trie_entries_version)]

-----------------------------------------------------------------------------
(* The SQL functions used by the storage queries.  Keys and partial keys are
   BLOBs holding one nibble per byte. *)

\* The byte that ends each parent trie path in key_vectored (0x10)
Separator == 16

Min(a, b) == IF a <= b THEN a ELSE b

\* LENGTH(X)
LENGTH(X) == IF X = NULL_BLOB THEN NULL_INT ELSE Len(X)

\* X + Y
Add(X, Y) == IF X = NULL_INT \/ Y = NULL_INT THEN NULL_INT ELSE X + Y

\* SUBSTR(X, Y, Z) for Y >= 1 and Z >= 0: NULL when an argument is NULL and
\* when X is the empty BLOB, the bytes Y .. Y+Z-1 that exist otherwise
SUBSTR(X, Y, Z) ==
    IF X = NULL_BLOB \/ Y = NULL_INT \/ Z = NULL_INT \/ X = << >> THEN NULL_BLOB
    ELSE IF Y > Len(X) \/ Z = 0 THEN << >>
    ELSE SubSeq(X, Y, Min(Y + Z - 1, Len(X)))

\* SUBSTR(X, Y) for Y >= 1
SUBSTR2(X, Y) ==
    IF X = NULL_BLOB \/ Y = NULL_INT \/ X = << >> THEN NULL_BLOB
    ELSE IF Y > Len(X) THEN << >>
    ELSE SubSeq(X, Y, Len(X))

\* COALESCE(X, Y) of two BLOBs
COALESCE(X, Y) == IF X # NULL_BLOB THEN X ELSE Y

\* X = Y is true (a comparison with NULL is NULL, which no WHEN, IIF, ON or
\* WHERE takes as true)
IsEq(X, Y) == X # NULL_BLOB /\ Y # NULL_BLOB /\ X = Y

\* trie_node.partial_key of the row LEFT JOINed on trie_node.hash = hash
PartialKeyOf(db, hash) ==
    IF hash # NULL /\ hash \in DOMAIN db.trie_node THEN db.trie_node[hash]
    ELSE NULL_BLOB

\* trie_node_child.child_hash of the row LEFT JOINed on hash and child_num
ChildHashOf(db, hash, child_num) ==
    IF hash # NULL /\ \E r \in db.trie_node_child :
                          r.hash = hash /\ r.child_num = child_num
    THEN (CHOOSE r \in db.trie_node_child :
              r.hash = hash /\ r.child_num = child_num).child_hash
    ELSE NULL

\* The trie_node_storage row LEFT JOINed on node_hash = hash
StorageOf(db, hash) ==
    IF hash # NULL /\ hash \in DOMAIN db.trie_node_storage
    THEN db.trie_node_storage[hash]
    ELSE [value |-> NULL, trie_root_ref |-> NULL, trie_entry_version |-> NULL]

-----------------------------------------------------------------------------
(* block_storage_get *)

\* key_vectored: each parent trie path followed by 0x10, then the key
RECURSIVE KeyVectored(_, _)
KeyVectored(parent_tries_paths_nibbles, key_nibbles) ==
    IF parent_tries_paths_nibbles = << >> THEN key_nibbles
    ELSE Head(parent_tries_paths_nibbles) \o <<Separator>>
            \o KeyVectored(Tail(parent_tries_paths_nibbles), key_nibbles)

\* A first SELECT that takes the root whatever its partial key
GetInitialRowAnyPartialKey(db, block_hash, key) ==
    LET hash == db.blocks[block_hash].state_trie_root_hash
        partial_key == PartialKeyOf(db, hash)
    IN  [node_hash |-> IF partial_key = NULL_BLOB THEN NULL ELSE hash,
         search_remain |->
            IF partial_key = NULL_BLOB THEN NULL_BLOB
            ELSE COALESCE(SUBSTR2(key, Add(1, LENGTH(partial_key))), << >>)]

\* The first SELECT of node_with_key: the root of the block, checked against
\* the beginning of the key
GetInitialRow(db, block_hash, key) ==
    LET hash == db.blocks[block_hash].state_trie_root_hash
        partial_key == PartialKeyOf(db, hash)
    IN  [node_hash |->
            IF IsEq(COALESCE(SUBSTR(key, 1, LENGTH(partial_key)), << >>), partial_key)
            THEN hash ELSE NULL,
         search_remain |->
            IF partial_key = NULL_BLOB THEN NULL_BLOB
            ELSE COALESCE(SUBSTR2(key, Add(1, LENGTH(partial_key))), << >>)]

\* A recursive SELECT that ends the search with "no entry" when the child
\* named by the parent is not in trie_node
GetNextRowAbsentChildIsNone(db, row) ==
    LET search_remain == row.search_remain
        child_hash == ChildHashOf(db, row.node_hash, Head(search_remain))
        partial_key == PartialKeyOf(db, child_hash)
        matches == IsEq(SUBSTR(search_remain, 2, LENGTH(partial_key)), partial_key)
    IN  [node_hash |-> IF matches THEN child_hash ELSE NULL,
         search_remain |->
            IF matches THEN SUBSTR2(search_remain, Add(2, LENGTH(partial_key)))
            ELSE << >>]

\* The recursive SELECT of node_with_key applied to one row whose
\* search_remain has at least one byte
GetNextRow(db, row) ==
    LET search_remain == row.search_remain
        child_hash == ChildHashOf(db, row.node_hash, Head(search_remain))
        partial_key == PartialKeyOf(db, child_hash)
        is_separator == Head(search_remain) = Separator
        matches == IsEq(SUBSTR(search_remain, 2, LENGTH(partial_key)), partial_key)
    IN  [node_hash |->
            IF is_separator THEN StorageOf(db, row.node_hash).trie_root_ref
            ELSE IF matches THEN child_hash
            ELSE NULL,
         search_remain |->
            IF is_separator THEN SUBSTR2(search_remain, 1)
            ELSE IF child_hash = NULL THEN << >>
            ELSE IF partial_key = NULL_BLOB THEN NULL_BLOB
            ELSE IF matches THEN SUBSTR2(search_remain, Add(2, LENGTH(partial_key)))
            ELSE << >>]

\* The row of node_with_key whose search_remain is empty or NULL.  A row whose
\* search_remain starts with 0x10 produces a row with the same search_remain,
\* so the recursion produces rows for ever and the query never returns.
RECURSIVE node_with_key(_, _)
node_with_key(db, row) ==
    IF row.search_remain = NULL_BLOB \/ row.search_remain = << >>
    THEN [ends |-> TRUE, row |-> row]
    ELSE IF GetNextRow(db, row).search_remain = row.search_remain
    THEN [ends |-> FALSE, row |-> row]
    ELSE node_with_key(db, GetNextRow(db, row))

\* block_storage_get: the panic of the assert! on a nibble, the query, and
\* the decoding of its one result row
block_storage_get(db, block_hash, parent_tries_paths_nibbles, key_nibbles) ==
    LET key_vectored == KeyVectored(parent_tries_paths_nibbles, key_nibbles)
        found == node_with_key(db, GetInitialRow(db, block_hash, key_vectored))
        storage == IF found.row.search_remain # NULL_BLOB
                   THEN StorageOf(db, found.row.node_hash)
                   ELSE StorageOf(db, NULL)
        value == IF storage.value # NULL THEN storage.value
                 ELSE storage.trie_root_ref
    IN  IF \/ \E i \in DOMAIN key_nibbles : key_nibbles[i] >= 16
           \/ \E i \in DOMAIN parent_tries_paths_nibbles :
                 \E j \in DOMAIN parent_tries_paths_nibbles[i] :
                     parent_tries_paths_nibbles[i][j] >= 16
        THEN <<"Panic">>
        ELSE IF ~has_block(db, block_hash) THEN <<"UnknownBlock">>
        ELSE IF ~found.ends THEN <<"Hang">>
        ELSE IF found.row.search_remain = NULL_BLOB THEN <<"IncompleteStorage">>
        ELSE IF value = NULL THEN <<"None">>
        ELSE <<"Some", value, storage.trie_entry_version>>

-----------------------------------------------------------------------------
(* block_storage_next_key *)

\* X < Y on BLOBs: byte by byte, a strict prefix being smaller; not true
\* when an operand is NULL
BlobLt(X, Y) ==
    /\ X # NULL_BLOB
    /\ Y # NULL_BLOB
    /\ \E i \in 1 .. Len(Y) :
          /\ Len(X) >= i - 1
          /\ \A j \in 1 .. i - 1 : X[j] = Y[j]
          /\ (Len(X) = i - 1 \/ X[i] < Y[i])

\* X <= Y on BLOBs
BlobLe(X, Y) == IsEq(X, Y) \/ BlobLt(X, Y)

\* value IS NULL AND trie_root_ref IS NULL of the storage row LEFT JOINed
IsBranch(db, hash) ==
    StorageOf(db, hash).value = NULL /\ StorageOf(db, hash).trie_root_ref = NULL

\* HEX(SUBSTR(key_search_remain, 1, 1)) = '10'
StartsWithSeparator(key_search_remain) ==
    /\ key_search_remain # NULL_BLOB
    /\ key_search_remain # << >>
    /\ Head(key_search_remain) = Separator

\* The first SELECT of next_key: the root of the block
NextKeyInitialRow(db, block_hash, key) ==
    LET hash == db.blocks[block_hash].state_trie_root_hash
        partial_key == PartialKeyOf(db, hash)
        not_after == BlobLe(COALESCE(SUBSTR(key, 1, LENGTH(partial_key)), << >>),
                            partial_key)
    IN  [node_hash |-> IF partial_key = NULL_BLOB THEN NULL
                       ELSE IF not_after THEN hash
                       ELSE NULL,
         node_is_branch |-> IsBranch(db, IF partial_key = NULL_BLOB THEN NULL ELSE hash),
         node_full_key |-> COALESCE(partial_key, << >>),
         key_search_remain |->
            IF partial_key = NULL_BLOB THEN NULL_BLOB
            ELSE IF not_after
            THEN COALESCE(SUBSTR2(key, Add(1, LENGTH(partial_key))), << >>)
            ELSE << >>]

\* The row of the LEFT JOIN on trie_node_child that matched nothing
NoChild == [hash |-> NULL, child_num |-> NULL_INT, child_hash |-> NULL]

\* The rows of trie_node_child that the recursive SELECT keeps for a row of
\* next_key: the children at or after the next nibble of the key (all of
\* them when the key is used up) that have no other child strictly between
\* the key and them, or the row of NULLs when no child matches
NextKeyChildren(db, row) ==
    LET key_search_remain == row.key_search_remain
        of_node == {r \in db.trie_node_child : r.hash = row.node_hash}
        matching == {r \in of_node :
                        \/ key_search_remain = << >>
                        \/ Head(key_search_remain) <= r.child_num}
    IN  IF matching = {} THEN {NoChild}
        ELSE {r \in matching :
                 ~\E before \in of_node :
                     /\ before.child_num < r.child_num
                     /\ \/ key_search_remain = << >>
                        \/ before.child_num > Head(key_search_remain)}

\* The recursive SELECT of next_key for one row and one row of
\* trie_node_child: the empty set when the WHERE clause rejects it
NextKeyRow(db, row, trie_node_child_row) ==
    LET key_search_remain == row.key_search_remain
        is_separator == StartsWithSeparator(key_search_remain)
        child_num == IF trie_node_child_row = NoChild THEN NULL_BLOB
                     ELSE <<trie_node_child_row.child_num>>
        child_hash == IF trie_node_child_row.child_hash \in DOMAIN db.trie_node
                      THEN trie_node_child_row.child_hash ELSE NULL
        partial_key == PartialKeyOf(db, child_hash)
        own_partial_key == PartialKeyOf(db, row.node_hash)
        trieref_hash ==
            IF /\ is_separator
               /\ StorageOf(db, row.node_hash).trie_root_ref # NULL
               /\ BlobLe(COALESCE(SUBSTR(key_search_remain, 2, LENGTH(own_partial_key)), << >>),
                         own_partial_key)
            THEN row.node_hash ELSE NULL
        trieref_partial_key == PartialKeyOf(db, trieref_hash)
        node_hash == IF child_hash # NULL THEN child_hash ELSE trieref_hash
        is_child == IsEq(SUBSTR(key_search_remain, 1, 1), child_num)
    IN  IF /\ (is_separator \/ child_num # NULL_BLOB)
           /\ \/ child_hash = NULL
              \/ ~(/\ IsEq(COALESCE(SUBSTR(key_search_remain, 1, 1), << >>), child_num)
                   /\ BlobLt(partial_key,
                             COALESCE(SUBSTR(key_search_remain, 2, LENGTH(partial_key)), << >>)))
        THEN {[node_hash |-> node_hash,
               node_is_branch |-> IsBranch(db, node_hash),
               node_full_key |->
                  IF child_num = NULL_BLOB THEN row.node_full_key
                  ELSE IF partial_key = NULL_BLOB /\ trieref_partial_key = NULL_BLOB
                  THEN row.node_full_key \o child_num
                  ELSE row.node_full_key \o child_num
                          \o COALESCE(partial_key, trieref_partial_key),
               key_search_remain |->
                  IF child_num # NULL_BLOB /\ partial_key = NULL_BLOB THEN NULL_BLOB
                  ELSE IF is_separator /\ trieref_hash = NULL THEN NULL_BLOB
                  ELSE IF /\ is_child
                          /\ IsEq(SUBSTR(key_search_remain, 2, LENGTH(partial_key)), partial_key)
                  THEN SUBSTR2(key_search_remain, Add(2, LENGTH(partial_key)))
                  ELSE IF /\ is_child
                          /\ BlobLt(SUBSTR(key_search_remain, 2, LENGTH(partial_key)), partial_key)
                  THEN << >>
                  ELSE IF /\ is_separator
                          /\ IsEq(COALESCE(SUBSTR(key_search_remain, 2, LENGTH(trieref_partial_key)), << >>),
                                  trieref_partial_key)
                  THEN COALESCE(SUBSTR2(key_search_remain, Add(2, LENGTH(trieref_partial_key))), << >>)
                  ELSE << >>]}
        ELSE {}

\* The rows that have not finished searching
NextKeyContinues(row, skip_branches) ==
    /\ row.node_hash # NULL
    /\ row.key_search_remain # NULL_BLOB
    /\ \/ row.key_search_remain # << >>
       \/ (row.node_is_branch /\ skip_branches)

\* next_key: the first row and every row derived from a row of the table
RECURSIVE NextKeyClosure(_, _, _)
NextKeyClosure(db, rows, skip_branches) ==
    LET derived == UNION {UNION {NextKeyRow(db, row, c) : c \in NextKeyChildren(db, row)} :
                             row \in {r \in rows : NextKeyContinues(r, skip_branches)}}
    IN  IF derived \subseteq rows THEN rows
        ELSE NextKeyClosure(db, rows \cup derived, skip_branches)

next_key(db, block_hash, key, skip_branches) ==
    NextKeyClosure(db, {NextKeyInitialRow(db, block_hash, key)}, skip_branches)

\* COALESCE(SUBSTR(node_full_key, 1, LENGTH(:prefix)), X'') = :prefix
HasPrefix(node_full_key, prefix) ==
    COALESCE(SUBSTR(node_full_key, 1, LENGTH(prefix)), << >>) = prefix

\* terminal_next_key: the rows of next_key that have finished
terminal_next_key(db, block_hash, key, prefix, skip_branches) ==
    {[incomplete_storage |-> HasPrefix(r.node_full_key, prefix)
                                /\ r.key_search_remain = NULL_BLOB,
      node_full_key |-> r.node_full_key,
      output |-> IF r.node_hash # NULL /\ HasPrefix(r.node_full_key, prefix)
                 THEN r.node_full_key ELSE NULL_BLOB] :
        r \in {r \in next_key(db, block_hash, key, skip_branches) :
                  \/ r.key_search_remain = NULL_BLOB
                  \/ /\ r.key_search_remain = << >>
                     /\ (~skip_branches \/ ~r.node_is_branch)}}

\* block_storage_next_key: the results that the call can return.  The final
\* SELECT takes a row of terminal_next_key whose node_full_key is the
\* smallest; the call strips the parent trie paths from the key found.
block_storage_next_key(db, block_hash, parent_tries_paths_nibbles, key_nibbles, prefix_nibbles, branch_nodes) ==
    LET parent_tries_paths == KeyVectored(parent_tries_paths_nibbles, << >>)
        key == parent_tries_paths \o key_nibbles
        prefix == parent_tries_paths \o prefix_nibbles
        terminal == terminal_next_key(db, block_hash, key, prefix, ~branch_nodes)
        smallest == {r \in terminal :
                        \A o \in terminal : BlobLe(r.node_full_key, o.node_full_key)}
    IN  IF \/ \E i \in DOMAIN key_nibbles : key_nibbles[i] >= 16
           \/ \E i \in DOMAIN prefix_nibbles : prefix_nibbles[i] >= 16
           \/ \E i \in DOMAIN parent_tries_paths_nibbles :
                 \E j \in DOMAIN parent_tries_paths_nibbles[i] :
                     parent_tries_paths_nibbles[i][j] >= 16
        THEN {<<"Panic">>}
        ELSE IF ~has_block(db, block_hash) THEN {<<"UnknownBlock">>}
        ELSE IF terminal = {} THEN {<<"None">>}
        ELSE {IF r.incomplete_storage THEN <<"IncompleteStorage">>
              ELSE IF r.output = NULL_BLOB THEN <<"None">>
              ELSE <<"Some", SubSeq(r.output, Len(parent_tries_paths) + 1, Len(r.output))>> :
                 r \in smallest}

-----------------------------------------------------------------------------
(* block_storage_closest_descendant_merkle_value *)

\* The WHERE and the CASE shared by the recursive SELECT: the key left after
\* the child number is the beginning of the child's partial key
RemainStartsPartialKey(search_remain, partial_key) ==
    IsEq(COALESCE(SUBSTR(partial_key, 1, LENGTH(search_remain) - 1), << >>),
         COALESCE(SUBSTR2(search_remain, 2), << >>))

\* ... or the child's partial key is the beginning of the key left
PartialKeyStartsRemain(search_remain, partial_key) ==
    IsEq(COALESCE(SUBSTR(search_remain, 2, LENGTH(partial_key)), << >>),
         partial_key)

\* A first SELECT for which a root that is not in trie_node always interrupts
\* the search, the empty key included
ClosestDescendantInitialRowsAbsentRootInterrupts(db, block_hash, key) ==
    LET hash == db.blocks[block_hash].state_trie_root_hash
        partial_key == PartialKeyOf(db, hash)
    IN  IF \/ partial_key = NULL_BLOB
           \/ IsEq(COALESCE(SUBSTR(partial_key, 1, LENGTH(key)), << >>), key)
           \/ IsEq(COALESCE(SUBSTR(key, 1, LENGTH(partial_key)), << >>), partial_key)
        THEN {[node_hash |-> hash,
               search_remain |->
                  IF partial_key = NULL_BLOB THEN NULL_BLOB
                  ELSE COALESCE(SUBSTR2(key, Add(1, LENGTH(partial_key))), << >>)]}
        ELSE {}

\* The first SELECT of closest_descendant: the root of the block, kept when
\* it is not in trie_node, when the key is the beginning of its partial key
\* or when its partial key is the beginning of the key.  No row otherwise.
ClosestDescendantInitialRows(db, block_hash, key) ==
    LET hash == db.blocks[block_hash].state_trie_root_hash
        partial_key == PartialKeyOf(db, hash)
    IN  IF \/ partial_key = NULL_BLOB
           \/ IsEq(COALESCE(SUBSTR(partial_key, 1, LENGTH(key)), << >>), key)
           \/ IsEq(COALESCE(SUBSTR(key, 1, LENGTH(partial_key)), << >>), partial_key)
        THEN {[node_hash |-> hash,
               search_remain |->
                  IF partial_key = NULL_BLOB /\ LENGTH(key) = 0 THEN << >>
                  ELSE IF partial_key = NULL_BLOB THEN NULL_BLOB
                  ELSE COALESCE(SUBSTR2(key, Add(1, LENGTH(partial_key))), << >>)]}
        ELSE {}

\* A recursive SELECT without its WHERE on the child's partial key
ClosestDescendantNextRowsUnfiltered(db, row) ==
    LET search_remain == row.search_remain
        child_hash == ChildHashOf(db, row.node_hash, Head(search_remain))
        partial_key == PartialKeyOf(db, child_hash)
    IN  {[node_hash |-> child_hash,
          search_remain |->
             IF child_hash = NULL THEN << >>
             ELSE IF partial_key = NULL_BLOB /\ LENGTH(search_remain) = 1 THEN << >>
             ELSE IF partial_key = NULL_BLOB THEN NULL_BLOB
             ELSE IF \/ RemainStartsPartialKey(search_remain, partial_key)
                     \/ PartialKeyStartsRemain(search_remain, partial_key)
             THEN SUBSTR2(search_remain, Add(2, LENGTH(partial_key)))
             ELSE << >>]}

\* The recursive SELECT of closest_descendant applied to one row whose
\* search_remain has at least one byte: the child at the next nibble, or at
\* 0x10 the trie_root_ref of the node.  No row when the child is in trie_node
\* and its partial key leaves the key.
ClosestDescendantNextRows(db, row) ==
    LET search_remain == row.search_remain
        is_separator == Head(search_remain) = Separator
        child_hash == ChildHashOf(db, row.node_hash, Head(search_remain))
        trie_root_ref == IF is_separator
                         THEN StorageOf(db, row.node_hash).trie_root_ref
                         ELSE NULL
        partial_key == PartialKeyOf(db, child_hash)
        matches == \/ RemainStartsPartialKey(search_remain, partial_key)
                   \/ PartialKeyStartsRemain(search_remain, partial_key)
    IN  IF partial_key = NULL_BLOB \/ matches
        THEN {[node_hash |-> IF child_hash # NULL THEN child_hash ELSE trie_root_ref,
               search_remain |->
                  IF child_hash = NULL /\ ~is_separator THEN << >>
                  ELSE IF /\ child_hash # NULL
                          /\ partial_key = NULL_BLOB
                          /\ LENGTH(search_remain) = 1
                  THEN << >>
                  ELSE IF child_hash # NULL /\ partial_key = NULL_BLOB THEN NULL_BLOB
                  ELSE IF matches
                  THEN SUBSTR2(search_remain, Add(2, LENGTH(partial_key)))
                  ELSE << >>]}
        ELSE {}

\* The rows of closest_descendant, from `row` on, whose search_remain is
\* empty or NULL: at most one, since each row derives at most one row, with
\* a shorter search_remain
RECURSIVE closest_descendant(_, _)
closest_descendant(db, rows) ==
    IF rows = {} THEN {}
    ELSE LET row == CHOOSE row \in rows : TRUE
         IN  IF row.search_remain = NULL_BLOB \/ row.search_remain = << >>
             THEN {row}
             ELSE closest_descendant(db, ClosestDescendantNextRows(db, row))

\* block_storage_closest_descendant_merkle_value: the panic of the assert! on
\* a nibble, the query, and the decoding of its one result row
block_storage_closest_descendant_merkle_value(db, block_hash, parent_tries_paths_nibbles, key_nibbles) ==
    LET key_vectored == KeyVectored(parent_tries_paths_nibbles, key_nibbles)
        found == closest_descendant(db,
                     ClosestDescendantInitialRows(db, block_hash, key_vectored))
    IN  IF \/ \E i \in DOMAIN key_nibbles : key_nibbles[i] >= 16
           \/ \E i \in DOMAIN parent_tries_paths_nibbles :
                 \E j \in DOMAIN parent_tries_paths_nibbles[i] :
                     parent_tries_paths_nibbles[i][j] >= 16
        THEN <<"Panic">>
        ELSE IF ~has_block(db, block_hash) THEN <<"UnknownBlock">>
        ELSE IF found = {} THEN <<"None">>
        ELSE LET row == CHOOSE row \in found : TRUE
             IN  IF row.node_hash # NULL /\ row.search_remain = NULL_BLOB
                 THEN <<"IncompleteStorage">>
                 ELSE IF row.node_hash = NULL THEN <<"None">>
                 ELSE <<"Some", row.node_hash>>

-----------------------------------------------------------------------------
(* finalized_and_above_missing_trie_nodes_unordered *)

\* A list of blocks that holds every stored block
AllBlocks(db) == DOMAIN db.blocks

\* finalized_and_above_blocks: the blocks whose number is at least the
\* finalized number
finalized_and_above_blocks(db) ==
    {block_hash \in DOMAIN db.blocks :
        db.blocks[block_hash].number >= db.meta.finalized}

\* The rows that the two recursive SELECTs of trie_nodes derive from the
\* present row `row`: one per child row of the node and one for its
\* trie_root_ref, the key extended by the child number or by 0x10 and, when
\* the target is in trie_node, by the target's partial key
TrieNodesFrom(db, row) ==
    {[block_hash |-> row.block_hash,
      node_hash |-> r.child_hash,
      node_key |-> row.node_key \o <<r.child_num>>
                     \o COALESCE(PartialKeyOf(db, r.child_hash), << >>),
      is_present |-> r.child_hash \in DOMAIN db.trie_node] :
        r \in {r \in db.trie_node_child : r.hash = row.node_hash}}
    \cup
    {[block_hash |-> row.block_hash,
      node_hash |-> ref,
      node_key |-> row.node_key \o <<Separator>>
                     \o COALESCE(PartialKeyOf(db, ref), << >>),
      is_present |-> ref \in DOMAIN db.trie_node] :
        ref \in {StorageOf(db, row.node_hash).trie_root_ref} \ {NULL}}

\* trie_nodes: the rows of the roots of the listed blocks and every row
\* derived from a present row
RECURSIVE TrieNodesClosure(_, _)
TrieNodesClosure(db, rows) ==
    LET derived == UNION {TrieNodesFrom(db, row) : row \in {r \in rows : r.is_present}}
    IN  IF derived \subseteq rows THEN rows
        ELSE TrieNodesClosure(db, rows \cup derived)

\* A trie_nodes without its recursive SELECTs: the state roots only
trie_nodes_roots_only(db) ==
    {[block_hash |-> block_hash,
      node_hash |-> db.blocks[block_hash].state_trie_root_hash,
      node_key |-> COALESCE(PartialKeyOf(db, db.blocks[block_hash].state_trie_root_hash), << >>),
      is_present |-> db.blocks[block_hash].state_trie_root_hash \in DOMAIN db.trie_node] :
        block_hash \in finalized_and_above_blocks(db)}

trie_nodes(db) ==
    TrieNodesClosure(db,
        {[block_hash |-> block_hash,
          node_hash |-> db.blocks[block_hash].state_trie_root_hash,
          node_key |-> COALESCE(PartialKeyOf(db, db.blocks[block_hash].state_trie_root_hash), << >>),
          is_present |-> db.blocks[block_hash].state_trie_root_hash \in DOMAIN db.trie_node] :
            block_hash \in finalized_and_above_blocks(db)})

\* The nibbles of node_key after its last 0x10
RECURSIVE TrieNodeKeyNibbles(_)
TrieNodeKeyNibbles(node_key) ==
    IF \E i \in DOMAIN node_key : node_key[i] = Separator
    THEN TrieNodeKeyNibbles(SubSeq(node_key,
             1 + (CHOOSE i \in DOMAIN node_key : node_key[i] = Separator
                     /\ \A j \in 1 .. i - 1 : node_key[j] # Separator),
             Len(node_key)))
    ELSE node_key

\* The runs of nibbles of node_key that end with 0x10, in order
RECURSIVE ParentTriesPaths(_)
ParentTriesPaths(node_key) ==
    IF \E i \in DOMAIN node_key : node_key[i] = Separator
    THEN LET i == CHOOSE i \in DOMAIN node_key : node_key[i] = Separator
                     /\ \A j \in 1 .. i - 1 : node_key[j] # Separator
         IN  <<SubSeq(node_key, 1, i - 1)>>
                \o ParentTriesPaths(SubSeq(node_key, i + 1, Len(node_key)))
    ELSE << >>

\* One MissingTrieNodeBlock per row of the group
MissingTrieNodeBlock(db, row) ==
    [hash |-> row.block_hash,
     number |-> db.blocks[row.block_hash].number,
     parent_tries_paths_nibbles |-> ParentTriesPaths(row.node_key),
     trie_node_key_nibbles |-> TrieNodeKeyNibbles(row.node_key)]

\* The rows with is_present = false grouped by node_hash; a group whose
\* node_hash is NULL cannot be read as a hash and the call fails
finalized_and_above_missing_trie_nodes_unordered(db) ==
    LET missing == {r \in trie_nodes(db) : ~r.is_present}
    IN  IF \E r \in missing : r.node_hash = NULL
        THEN [result |-> "Corrupted", nodes |-> {}]
        ELSE [result |-> "Ok",
              nodes |-> {[trie_node_hash |-> node_hash,
                          blocks |-> {MissingTrieNodeBlock(db, r) :
                                         r \in {r \in missing : r.node_hash = node_hash}}] :
                            node_hash \in {r.node_hash : r \in missing}}]

-----------------------------------------------------------------------------
(* purge_finality_orphans *)

\* A purge that takes every block at or below the finalized height
FinalityOrphansAnyFlag(db) ==
    {h \in DOMAIN db.blocks : db.blocks[h].number <= finalized_num(db)}

\* A purge that takes the blocks off the best chain at every height
FinalityOrphansAnyHeight(db) ==
    {h \in DOMAIN db.blocks : db.blocks[h].is_best_chain = "FALSE"}

\* SELECT hash FROM blocks WHERE number <= ? AND is_best_chain = FALSE
\* (a NULL flag does not compare equal to FALSE)
FinalityOrphans(db) ==
    {h \in DOMAIN db.blocks : /\ db.blocks[h].number <= finalized_num(db)
                              /\ db.blocks[h].is_best_chain = "FALSE"}

\* DELETE FROM trie_node WHERE hash IN (...): the rows of trie_node_storage
\* and trie_node_child that belong to a deleted node go with it (their
\* foreign key on trie_node is ON DELETE CASCADE).
DeleteTrieNodes(db, hashes) ==
    [db EXCEPT
        !.trie_node = [h \in DOMAIN @ \ hashes |-> @[h]],
        !.trie_node_storage = [h \in DOMAIN @ \ hashes |-> @[h]],
        !.trie_node_child = {r \in @ : r.hash \notin hashes}]

\* Some block has this node as its state root
IsStateRoot(db, node_hash) ==
    \E b \in DOMAIN db.blocks : db.blocks[b].state_trie_root_hash = node_hash

\* Some storage row has this node as its trie_root_ref
IsTrieRootRef(db, node_hash) ==
    \E n \in DOMAIN db.trie_node_storage :
        db.trie_node_storage[n].trie_root_ref = node_hash

\* The recursive part of to_delete: the children of the rows found so far,
\* unless a block has the child as state root or a storage row refers to the
\* row it is a child of.
RECURSIVE to_delete(_, _)
to_delete(db, found) ==
    LET more == {r.child_hash : r \in
                    {r \in db.trie_node_child :
                        /\ r.hash \in found
                        /\ ~IsStateRoot(db, r.child_hash)
                        /\ ~IsTrieRootRef(db, r.hash)}}
    IN  IF more \subseteq found THEN found ELSE to_delete(db, found \cup more)

\* purge_block_storage: the block's state root is set to NULL, then the
\* nodes of to_delete are deleted, starting from the root unless another
\* block has it as state root or a storage row refers to it.
purge_block_storage(db, hash) ==
    LET state_trie_root_hash == db.blocks[hash].state_trie_root_hash
        cleared == [db EXCEPT !.blocks[hash].state_trie_root_hash = NULL]
        initial == IF /\ state_trie_root_hash \in DOMAIN cleared.trie_node
                      /\ ~IsStateRoot(cleared, state_trie_root_hash)
                      /\ ~IsTrieRootRef(cleared, state_trie_root_hash)
                   THEN {state_trie_root_hash} ELSE {}
    IN  DeleteTrieNodes(cleared, to_delete(cleared, initial))

\* purge_block_storage; DELETE FROM blocks_body WHERE hash = ?;
\* DELETE FROM blocks WHERE hash = ?
purge_block(db, hash) ==
    LET purged == purge_block_storage(db, hash)
    IN  [purged EXCEPT
            !.blocks_body = {r \in @ : r.hash # hash},
            !.blocks = [h \in DOMAIN @ \ {hash} |-> @[h]]]

\* for block in blocks { purge_block }: the SELECT has no ORDER BY, so the
\* blocks come in any order.
RECURSIVE PurgeAll(_, _)
PurgeAll(db, hashes) ==
    IF hashes = {} THEN {db}
    ELSE UNION {PurgeAll(purge_block(db, block), hashes \ {block}) :
                   block \in hashes}

\* purge_finality_orphans: reading a NULL state root as a blob fails, and
\* the transaction is dropped.
purge_finality_orphans(db) ==
    IF \E h \in FinalityOrphans(db) : db.blocks[h].state_trie_root_hash = NULL
    THEN {[result |-> "Corrupted", db |-> Rollback(db, db)]}
    ELSE {[result |-> "Ok", db |-> d] : d \in PurgeAll(db, FinalityOrphans(db))}

-----------------------------------------------------------------------------
(* reset *)

\* INSERT OR REPLACE INTO blocks(...) VALUES(?, ?, ?, ?, ?, TRUE, ?)
ResetRow(finalized_block_header) ==
    [number |-> finalized_block_header.number,
     parent_hash |-> IF finalized_block_header.number # 0
                     THEN finalized_block_header.parent_hash ELSE NULL,
     state_trie_root_hash |-> finalized_block_header.state_root,
     header |-> finalized_block_header,
     is_best_chain |-> "TRUE",
     justification |-> NULL]

\* The consensus meta keys and side tables that reset writes: all are
\* cleared, then those of the finality and of the consensus given are set.
ResetConsensus(chain_information) ==
    LET finality == chain_information.finality
        cons == chain_information.consensus
        scheduled == finality.finalized_scheduled_change
    IN  [grandpa_authorities_set_id |->
            IF finality.kind = "Grandpa"
            THEN ToI64(finality.after_finalized_block_authorities_set_id)
            ELSE NULL_INT,
         grandpa_triggered_authorities |->
            IF finality.kind = "Grandpa"
            THEN AuthorityRows(finality.finalized_triggered_authorities)
            ELSE {},
         grandpa_scheduled_target |->
            IF finality.kind = "Grandpa" /\ scheduled # None
            THEN ToI64(scheduled[2][1]) ELSE NULL_INT,
         grandpa_scheduled_authorities |->
            IF finality.kind = "Grandpa" /\ scheduled # None
            THEN AuthorityRows(scheduled[2][2]) ELSE {},
         aura_slot_duration |->
            IF cons.kind = "Aura" THEN ToI64(cons.slot_duration) ELSE NULL_INT,
         aura_finalized_authorities |->
            IF cons.kind = "Aura"
            THEN AuraAuthorityRows(cons.finalized_authorities_list) ELSE {},
         babe_slots_per_epoch |->
            IF cons.kind = "Babe" THEN ToI64(cons.slots_per_epoch) ELSE NULL_INT,
         babe_finalized_next_epoch |->
            IF cons.kind = "Babe"
            THEN encode_babe_epoch_information(cons.finalized_next_epoch_transition)
            ELSE NULL_BLOB,
         babe_finalized_epoch |->
            IF cons.kind = "Babe" /\ cons.finalized_block_epoch_information # None
            THEN encode_babe_epoch_information(cons.finalized_block_epoch_information[2])
            ELSE NULL_BLOB]

\* reset: the block of the chain information replaces the stored block of
\* the same hash and its body, `best` and `finalized` are set to it, and the
\* consensus metadata is rewritten.  The other blocks are left alone.
reset(db, chain_information, finalized_block_body) ==
    LET finalized_block_header == chain_information.finalized_block_header
        finalized_block_hash ==
            hash_from_scale_encoded_header(finalized_block_header)
    IN  [result |-> "Ok",
         db |-> [db EXCEPT
                 !.blocks = finalized_block_hash :> ResetRow(finalized_block_header)
                              @@ db.blocks,
                 !.blocks_body =
                     {r \in db.blocks_body : r.hash # finalized_block_hash}
                       \cup BodyRows(finalized_block_hash, finalized_block_body),
                 !.meta = [best |-> finalized_block_hash,
                           finalized |-> finalized_block_header.number],
                 !.consensus = ResetConsensus(chain_information)]]

\* The database before initialize: no rows.
EmptyDb ==
    [blocks |-> << >>, blocks_body |-> {}, meta |-> << >>,
     consensus |-> NoConsensus,
     trie_node |-> << >>, trie_node_storage |-> << >>, trie_node_child |-> {}]

-----------------------------------------------------------------------------
(* The state machine *)

Call(op, hash, is_new_best, result) ==
    [op |-> op, hash |-> hash, is_new_best |-> is_new_best, result |-> result]

\* The tables of the connection
Tables == <<blocks, blocks_body, meta, consensus_meta, trie_node,
            trie_node_storage, trie_node_child>>

\* The threads: each runs one operation at a time
Threads == {"t1", "t2"}

\* A thread that runs no operation
Idle ==
    [at |-> "idle",
     call |-> [op |-> NULL, hash |-> NULL, is_new_best |-> FALSE, callback |-> FALSE],
     items |-> << >>, idx |-> 0, rest |-> {}]

\* The tables of the connection become those of db
Writes(db) ==
    /\ blocks' = db.blocks
    /\ blocks_body' = db.blocks_body
    /\ meta' = db.meta
    /\ consensus_meta' = db.consensus
    /\ trie_node' = db.trie_node
    /\ trie_node_storage' = db.trie_node_storage
    /\ trie_node_child' = db.trie_node_child

\* An operation run from lock to unlock in one step.  A statement that never
\* ends leaves the mutex locked and commits nothing.
Returns(o) ==
    /\ hung' = (o.result = "Hang")
    /\ Writes(o.db)
    /\ UNCHANGED <<mutex, pc, committed, calls>>

\* DatabaseEmpty::initialize installs the genesis block as reset does.
Initialize(chain_information, finalized_block_body) ==
    LET o == reset(EmptyDb, chain_information, finalized_block_body)
    IN  /\ blocks = o.db.blocks
        /\ blocks_body = o.db.blocks_body
        /\ meta = o.db.meta
        /\ consensus_meta = o.db.consensus
        /\ trie_node = o.db.trie_node
        /\ trie_node_storage = o.db.trie_node_storage
        /\ trie_node_child = o.db.trie_node_child
        /\ debug_assertions \in BOOLEAN
        /\ not_null \in BOOLEAN
        /\ hung = FALSE
        /\ last = Call("initialize", "hG0", FALSE, "Ok")
        /\ resets = 0
        /\ inserted = << >>
        /\ replaced = {}
        /\ finalized_arg = "hG0"
        /\ mutex = NULL
        /\ pc = [t \in Threads |-> Idle]
        /\ committed = EmptyDb
        /\ calls = 0

\* The block tree is followed on a chain without consensus metadata.
Init ==
    \E body \in ResetBodies(HeaderOf["hG0"]) :
        Initialize(PlainChainInformation(HeaderOf["hG0"]), body)

Insert(scale_encoded_header, is_new_best, body) ==
    LET block_hash == hash_from_scale_encoded_header(scale_encoded_header)
    IN  /\ ~hung
        /\ \E o \in insert(Db, scale_encoded_header, is_new_best, body) :
              /\ Returns(o)
              /\ last' = Call("insert", block_hash, is_new_best, o.result)
              /\ inserted' = IF o.result = "Ok" /\ ~is_new_best
                             THEN block_hash :> body @@ inserted
                             ELSE inserted
        /\ UNCHANGED <<debug_assertions, not_null, resets, replaced, finalized_arg>>

SetFinalized(new_finalized_block_hash) ==
    /\ ~hung
    /\ \E o \in set_finalized(Db, new_finalized_block_hash) :
          /\ Returns(o)
          /\ last' = Call("set_finalized", new_finalized_block_hash, FALSE, o.result)
          /\ finalized_arg' = IF o.result = "Ok" THEN new_finalized_block_hash
                              ELSE finalized_arg
    /\ UNCHANGED <<debug_assertions, not_null, resets, inserted, replaced>>

PurgeFinalityOrphans ==
    /\ ~hung
    /\ \E o \in purge_finality_orphans(Db) :
           /\ Returns(o)
           /\ last' = Call("purge_finality_orphans", NULL, FALSE, o.result)
           /\ inserted' = [h \in DOMAIN inserted \cap DOMAIN o.db.blocks |-> inserted[h]]
           /\ replaced' = replaced \cap DOMAIN o.db.blocks
    /\ UNCHANGED <<debug_assertions, not_null, resets, finalized_arg>>

Reset(chain_information, finalized_block_body) ==
    LET finalized_block_hash ==
            hash_from_scale_encoded_header(chain_information.finalized_block_header)
    IN  /\ ~hung
        /\ resets < MaxResets
        /\ LET o == reset(Db, chain_information, finalized_block_body)
           IN  /\ Returns(o)
               /\ last' = Call("reset", finalized_block_hash, FALSE, o.result)
        /\ resets' = resets + 1
        /\ replaced' = replaced \cup ({finalized_block_hash} \cap DOMAIN inserted)
        /\ finalized_arg' = finalized_block_hash
        /\ UNCHANGED <<debug_assertions, not_null, inserted>>

InsertTrieNodes(new_trie_nodes, trie_entries_version) ==
    /\ ~hung
    /\ LET o == insert_trie_nodes(Db, new_trie_nodes, trie_entries_version)
       IN  /\ Returns(o)
           /\ last' = Call("insert_trie_nodes", NULL, FALSE, o.result)
    /\ UNCHANGED <<debug_assertions, not_null, resets, inserted, replaced,
                   finalized_arg>>

Next ==
    \/ \E header \in Headers, is_new_best \in BOOLEAN :
          \E body \in InsertBodies(header) : Insert(header, is_new_best, body)
    \/ \E hash \in Hashes : SetFinalized(hash)
    \/ PurgeFinalityOrphans
    \/ \E header \in Headers :
          \E body \in ResetBodies(header) :
              Reset(PlainChainInformation(header), body)

Spec == Init /\ [][Next]_vars

\* The blocks of the runs that follow the state tries
TrieHashes == {"hG0", "hA1", "hB1"}

\* The database with its state tries: blocks are inserted, finalized and
\* purged while trie nodes are inserted.
TrieNext ==
    \/ \E hash \in TrieHashes \ {"hG0"}, is_new_best \in BOOLEAN :
          \E body \in InsertBodies(HeaderOf[hash]) :
              Insert(HeaderOf[hash], is_new_best, body)
    \/ \E hash \in TrieHashes : SetFinalized(hash)
    \/ PurgeFinalityOrphans
    \/ \E c \in InsertTrieNodesCalls :
          InsertTrieNodes(c.new_trie_nodes, c.trie_entries_version)

\* The tries are followed from a genesis block without extrinsics, under the
\* schema that rejects NULL flags: no trie operation reads either.
TrieInit == Init /\ not_null /\ blocks_body = {}

TrieSpec == TrieInit /\ [][TrieNext]_vars

\* The blocks of the runs that follow the consensus metadata
ConsensusHashes == {"hG0", "hA1", "hB1", "hB2", "hE1", "hE2"}

\* The chain informations handed to reset in these runs
ResetChainInformations ==
    ValidChainInformations(HeaderOf["hB1"])

\* The database with its consensus metadata: blocks are inserted without
\* moving the best block and finalized, and the database is reset to another
\* chain information.
ConsensusNext ==
    \/ \E hash \in ConsensusHashes \ {"hG0"} :
          \E body \in InsertBodies(AnyHeaderOf[hash]) :
              Insert(AnyHeaderOf[hash], FALSE, body)
    \/ \E hash \in ConsensusHashes : SetFinalized(hash)
    \/ \E chain_information \in ResetChainInformations :
          Reset(chain_information, << >>)

\* The consensus metadata is followed from every valid chain information of
\* the genesis block, under the schema that rejects NULL flags.
ConsensusInit ==
    /\ \E chain_information \in ValidChainInformations(HeaderOf["hG0"]) :
          Initialize(chain_information, << >>)
    /\ not_null

ConsensusSpec == ConsensusInit /\ [][ConsensusNext]_vars

-----------------------------------------------------------------------------
(* Threads: the operations statement by statement, under the mutex *)

\* Operations the threads start in a run
MaxCalls == 3

\* What the statements of a thread leave alone
History == <<debug_assertions, not_null, resets, inserted, replaced, finalized_arg>>

\* The operations that collect their iterators before database.lock()
DrainsBeforeLock(call) ==
    call.op \in {"block_storage_get", "block_storage_next_key",
                 "block_storage_closest_descendant_merkle_value"}

\* The operations that run `for item in iterator` between lock and commit
LoopsUnderLock(call) == call.op \in {"insert", "insert_trie_nodes", "reset"}

ThreadCall(op, hash, is_new_best, callback) ==
    [op |-> op, hash |-> hash, is_new_best |-> is_new_best, callback |-> callback]

\* The calls of the threads.  `callback` says whether next() of the iterator
\* that the caller hands over calls a public operation of the database.  For
\* insert_trie_nodes, `hash` names the entry that ends the batch when it is
\* not the root s2.
ThreadCalls ==
    {ThreadCall("insert", "hA1", is_new_best, callback) :
        is_new_best \in BOOLEAN, callback \in BOOLEAN}
    \cup {ThreadCall("reset", "hA1", FALSE, callback) : callback \in BOOLEAN}
    \cup {ThreadCall("insert_trie_nodes", NULL, FALSE, callback) :
            callback \in BOOLEAN}
    \cup {ThreadCall("insert_trie_nodes", "n16", FALSE, FALSE)}
    \cup {ThreadCall(op, "hB1", FALSE, callback) :
            op \in {"block_storage_get", "block_storage_next_key",
                    "block_storage_closest_descendant_merkle_value"},
            callback \in BOOLEAN}
    \cup {ThreadCall("set_finalized", "hB1", FALSE, FALSE),
          ThreadCall("purge_finality_orphans", NULL, FALSE, FALSE),
          ThreadCall("block_extrinsics", "hA1", FALSE, FALSE)}

\* trie_entries_version of the calls of insert_trie_nodes
ThreadVersion == 1

\* The key looked up by the storage queries of the threads
ThreadKey == <<0, 1>>

\* What the iterator handed over with a call yields
CallerItems(call) ==
    IF call.op \in {"insert", "reset"} THEN ExtrinsicsOf[call.hash]
    ELSE IF call.op = "insert_trie_nodes"
    THEN <<NodeOf["t"], NodeOf["w"],
           IF call.hash = NULL THEN NodeOf["s2"] ELSE NodeOf[call.hash]>>
    ELSE IF DrainsBeforeLock(call) THEN ThreadKey
    ELSE << >>

\* The operation as one atomic action on the tables db
Sequential(db, call) ==
    IF call.op = "insert"
    THEN insert(db, HeaderOf[call.hash], call.is_new_best, CallerItems(call))
    ELSE IF call.op = "reset"
    THEN {reset(db, PlainChainInformation(HeaderOf[call.hash]), CallerItems(call))}
    ELSE IF call.op = "insert_trie_nodes"
    THEN {insert_trie_nodes(db, CallerItems(call), ThreadVersion)}
    ELSE IF call.op = "set_finalized" THEN set_finalized(db, call.hash)
    ELSE IF call.op = "purge_finality_orphans" THEN purge_finality_orphans(db)
    ELSE {[result |-> "Ok", db |-> db]}

\* A lock that is granted whoever holds the mutex
MutexIgnored(t) == TRUE

\* parking_lot::Mutex::lock returns when no thread holds the mutex
MutexFree(t) == mutex = NULL

\* next() of a caller's iterator that calls back into the database locks the
\* mutex for the time of that call: it waits while another thread holds it,
\* and never returns when the thread itself holds it.
NextReturns(t) == ~pc[t].call.callback \/ mutex = NULL

NextDeadlocks(t) == pc[t].call.callback /\ mutex = t

\* The thread goes on with the same operation
Goes(t, at, items, idx, rest) ==
    pc' = [pc EXCEPT ![t] = [at |-> at, call |-> pc[t].call, items |-> items,
                             idx |-> idx, rest |-> rest]]

\* commit or drop of the transaction, then the guard is dropped
Unlocks(t, result, db) ==
    /\ Writes(db)
    /\ committed' = db
    /\ mutex' = NULL
    /\ pc' = [pc EXCEPT ![t] = Idle]
    /\ last' = Call(pc[t].call.op, pc[t].call.hash, pc[t].call.is_new_best, result)
    /\ UNCHANGED <<hung, calls>>

\* A thread calls a public operation
Starts(t, call) ==
    /\ pc[t].at = "idle"
    /\ calls < MaxCalls
    /\ calls' = calls + 1
    /\ pc' = [pc EXCEPT ![t] =
                 [at |-> IF DrainsBeforeLock(call) THEN "drain" ELSE "lock",
                  call |-> call, items |-> CallerItems(call), idx |-> 0,
                  rest |-> {}]]
    /\ UNCHANGED <<Tables, hung, last, mutex, committed>>
    /\ UNCHANGED History

\* .collect::<Vec<_>>() before database.lock(): one next() of the iterator
Drains(t) ==
    /\ pc[t].at = "drain"
    /\ NextReturns(t)
    /\ IF pc[t].items = << >> THEN Goes(t, "lock", << >>, pc[t].idx, {})
       ELSE Goes(t, "drain", Tail(pc[t].items), pc[t].idx + 1, {})
    /\ UNCHANGED <<Tables, hung, last, mutex, committed, calls>>
    /\ UNCHANGED History

\* self.database.lock()
Locks(t) ==
    /\ pc[t].at = "lock"
    /\ MutexFree(t)
    /\ mutex' = t
    /\ Goes(t, "locked", pc[t].items, 0, {})
    /\ UNCHANGED <<Tables, hung, last, committed, calls>>
    /\ UNCHANGED History

\* The statements of an operation before its loop
Begins(t) ==
    LET call == pc[t].call
        header == HeaderOf[call.hash]
        check == InsertCheck(Db, call.hash, header.parent_hash)
    IN  /\ pc[t].at = "locked"
        /\ IF call.op = "insert"
           THEN IF check # "Pass" THEN Unlocks(t, check, committed)
                ELSE /\ Writes([Db EXCEPT !.blocks =
                                   call.hash :> InsertedRow(header, header) @@ blocks])
                     /\ Goes(t, "loop", pc[t].items, 0, {})
                     /\ UNCHANGED <<hung, last, mutex, committed, calls>>
           ELSE IF call.op = "reset"
           THEN /\ Writes([Db EXCEPT
                             !.blocks = call.hash :> ResetRow(header) @@ blocks,
                             !.blocks_body = {r \in @ : r.hash # call.hash}])
                /\ Goes(t, "loop", pc[t].items, 0, {})
                /\ UNCHANGED <<hung, last, mutex, committed, calls>>
           ELSE IF call.op = "insert_trie_nodes"
           THEN /\ Goes(t, "loop", pc[t].items, 0, {})
                /\ UNCHANGED <<Tables, hung, last, mutex, committed, calls>>
           ELSE IF call.op = "set_finalized"
           THEN IF ~has_block(Db, call.hash)
                THEN Unlocks(t, "UnknownBlock", committed)
                ELSE IF blocks[call.hash].header.number = finalized_num(Db)
                THEN Unlocks(t, "Ok", committed)
                ELSE IF blocks[call.hash].header.number < finalized_num(Db)
                THEN Unlocks(t, "RevertForbidden", committed)
                ELSE /\ Writes([Db EXCEPT !.meta.finalized =
                                   blocks[call.hash].header.number])
                     /\ Goes(t, "finish", << >>, finalized_num(Db) + 1, {})
                     /\ UNCHANGED <<hung, last, mutex, committed, calls>>
           ELSE IF call.op = "purge_finality_orphans"
           THEN /\ Goes(t, "purge", << >>, 0, FinalityOrphans(Db))
                /\ UNCHANGED <<Tables, hung, last, mutex, committed, calls>>
           ELSE /\ Goes(t, "finish", << >>, 0, {})
                /\ UNCHANGED <<Tables, hung, last, mutex, committed, calls>>
        /\ UNCHANGED History

\* A panic that leaves the writes of the unfinished transaction in the tables
UnwindsKeepsWrites(at_begin, now) ==
    now

\* assert!(...) fails inside the loop: the stack unwinds, the transaction is
\* dropped without a commit, which rolls it back, and the guard is dropped
Unwinds(at_begin, now) ==
    at_begin

\* for item in iterator, between lock and commit: one next() of the iterator
\* and the statements on the item it yields
Loops(t) ==
    LET call == pc[t].call
        item == Head(pc[t].items)
        row == [hash |-> call.hash, idx |-> pc[t].idx, extrinsic |-> item]
    IN  /\ pc[t].at = "loop"
        /\ NextReturns(t) \/ NextDeadlocks(t)
        /\ IF NextDeadlocks(t)
           THEN /\ Goes(t, "deadlocked", pc[t].items, pc[t].idx, {})
                /\ UNCHANGED <<Tables, hung, last, mutex, committed, calls>>
           ELSE IF pc[t].items = << >>
           THEN /\ Goes(t, "finish", << >>, pc[t].idx, {})
                /\ UNCHANGED <<Tables, hung, last, mutex, committed, calls>>
           ELSE IF /\ call.op = "insert"
                   /\ \E r \in blocks_body : r.hash = row.hash /\ r.idx = row.idx
           THEN Unlocks(t, "Panic", committed)
           ELSE IF /\ call.op = "insert_trie_nodes"
                   /\ \E j \in DOMAIN item.partial_key_nibbles :
                         item.partial_key_nibbles[j] >= 16
           THEN Unlocks(t, "Panic", Unwinds(committed, Db))
           ELSE /\ Writes(IF call.op = "insert_trie_nodes"
                          THEN InsertOneTrieNode(Db, item, ThreadVersion)
                          ELSE IF \E r \in blocks_body :
                                     r.hash = row.hash /\ r.idx = row.idx
                          THEN Db
                          ELSE [Db EXCEPT !.blocks_body = @ \cup {row}])
                /\ Goes(t, "loop", Tail(pc[t].items), pc[t].idx + 1, {})
                /\ UNCHANGED <<hung, last, mutex, committed, calls>>
        /\ UNCHANGED History

\* for block in blocks { purge_block }: the storage of a block, then its rows
Purges(t) ==
    /\ pc[t].at = "purge"
    /\ IF pc[t].items # << >>
       THEN /\ Writes([Db EXCEPT
                         !.blocks_body = {r \in @ : r.hash # pc[t].items[1]},
                         !.blocks = [h \in DOMAIN @ \ {pc[t].items[1]} |-> @[h]]])
            /\ Goes(t, "purge", << >>, 0, pc[t].rest)
            /\ UNCHANGED <<hung, last, mutex, committed, calls>>
       ELSE IF pc[t].rest = {}
       THEN /\ Goes(t, "finish", << >>, 0, {})
            /\ UNCHANGED <<Tables, hung, last, mutex, committed, calls>>
       ELSE \E block \in pc[t].rest :
               IF blocks[block].state_trie_root_hash = NULL
               THEN Unlocks(t, "Corrupted", committed)
               ELSE /\ Writes(purge_block_storage(Db, block))
                    /\ Goes(t, "purge", <<block>>, 0, pc[t].rest \ {block})
                    /\ UNCHANGED <<hung, last, mutex, committed, calls>>
    /\ UNCHANGED History

\* The statements of an operation after its loop, to the commit
Finishes(t) ==
    LET call == pc[t].call
    IN  /\ pc[t].at = "finish"
        /\ IF call.op = "insert" /\ call.is_new_best
           THEN IF HeaderOf[call.hash].number <= finalized_num(Db)
                THEN Unlocks(t, "BestNotInFinalizedChain", committed)
                ELSE \E o \in set_best_chain(Db, call.hash) :
                        IF o.result = "Hang"
                        THEN /\ hung' = TRUE
                             /\ Goes(t, "hung", << >>, 0, {})
                             /\ UNCHANGED <<Tables, last, mutex, committed, calls>>
                        ELSE Unlocks(t, o.result,
                                     IF o.result = "Ok" THEN o.db ELSE committed)
           ELSE IF call.op = "reset"
           THEN Unlocks(t, "Ok",
                        [Db EXCEPT
                           !.meta = [best |-> call.hash,
                                     finalized |-> HeaderOf[call.hash].number],
                           !.consensus = ResetConsensus(
                               PlainChainInformation(HeaderOf[call.hash]))])
           ELSE IF call.op = "set_finalized"
           THEN \E o \in FinalizeHeights(Db, consensus_meta, pc[t].idx,
                                         finalized_num(Db)) :
                   IF o[1] = "Ok"
                   THEN Unlocks(t, "Ok", [Db EXCEPT !.consensus = o[2]])
                   ELSE Unlocks(t, o[1], committed)
           ELSE Unlocks(t, "Ok", Db)
        /\ UNCHANGED History

\* The threads run operations of the database concurrently.
ThreadNext ==
    \E t \in Threads :
        \/ \E call \in ThreadCalls : Starts(t, call)
        \/ Drains(t)
        \/ Locks(t)
        \/ Begins(t)
        \/ Loops(t)
        \/ Purges(t)
        \/ Finishes(t)

\* The threads start on a database that holds the genesis block and its
\* child hB1, inserted as best block, under the schema that rejects NULL
\* flags.
ThreadInit ==
    LET genesis == reset(EmptyDb, PlainChainInformation(HeaderOf["hG0"]), << >>).db
    IN  /\ not_null = TRUE
        /\ debug_assertions \in BOOLEAN
        /\ \E o \in insert(genesis, HeaderOf["hB1"], TRUE, ExtrinsicsOf["hB1"]) :
              /\ o.result = "Ok"
              /\ blocks = o.db.blocks
              /\ blocks_body = o.db.blocks_body
              /\ meta = o.db.meta
              /\ consensus_meta = o.db.consensus
              /\ trie_node = o.db.trie_node
              /\ trie_node_storage = o.db.trie_node_storage
              /\ trie_node_child = o.db.trie_node_child
              /\ committed = o.db
        /\ hung = FALSE
        /\ last = Call("insert", "hB1", TRUE, "Ok")
        /\ resets = 0
        /\ inserted = << >>
        /\ replaced = {}
        /\ finalized_arg = "hG0"
        /\ mutex = NULL
        /\ pc = [t \in Threads |-> Idle]
        /\ calls = 0

ThreadSpec == ThreadInit /\ [][ThreadNext]_vars

-----------------------------------------------------------------------------
(* Properties *)

\* The stored blocks reachable from `hash` by following parent_hash
RECURSIVE ChainFrom(_, _)
ChainFrom(db, hash) ==
    IF hash \notin DOMAIN db.blocks THEN {}
    ELSE {hash} \cup ChainFrom(db, db.blocks[hash].parent_hash)

\* The hashes of a header's ancestors, itself included, by the headers alone
RECURSIVE HeaderChain(_)
HeaderChain(hash) ==
    IF hash \notin Hashes THEN {}
    ELSE {hash} \cup HeaderChain(HeaderOf[hash].parent_hash)

\* C1: the blocks flagged is_best_chain = TRUE are exactly the stored blocks
\* reachable from the best block through parent pointers, and every other
\* stored block has the flag FALSE.
C1_BestChainExclusivity ==
    \A h \in DOMAIN blocks :
        IF h \in ChainFrom(Db, best_block_hash(Db))
        THEN blocks[h].is_best_chain = "TRUE"
        ELSE blocks[h].is_best_chain = "FALSE"

\* C2: no operation lowers the `finalized` meta value.
C2_FinalizedNeverDecreases ==
    [][meta'.finalized >= meta.finalized]_vars

\* C3: after set_finalized(h) returned success, finalized_block_hash() is h,
\* whichever row the query takes.
C3_SetFinalizedThenFinalizedHash ==
    (last.op = "set_finalized" /\ last.result = "Ok")
        => finalized_hash(Db) = {last.hash}

\* C4: the block given to set_finalized/reset whose number is the finalized
\* number is flagged best-chain, and every height up to the best block's has
\* exactly one block flagged best-chain.
C4_FinalizedOnBestChain ==
    /\ (/\ finalized_arg \in DOMAIN blocks
        /\ blocks[finalized_arg].number = finalized_num(Db))
           => blocks[finalized_arg].is_best_chain = "TRUE"
    /\ best_block_hash(Db) \in DOMAIN blocks
           => \A n \in 0 .. blocks[best_block_hash(Db)].number :
                 Cardinality(best_block_hash_by_number(Db, n)) = 1

C6_BestMustDescendFromFinalized ==
    (/\ last.op = "insert"
     /\ last.is_new_best
     /\ last.result \notin {"Duplicate", "MissingParent"}
     /\ HeaderOf[finalized_arg].number = finalized_num(Db)
     /\ finalized_arg \notin HeaderChain(last.hash))
        => last.result = "BestNotInFinalizedChain"

\* C7: insert with is_new_best = true of a block that passes the Duplicate
\* and MissingParent checks and whose number is at most the finalized number
\* returns BestNotInFinalizedChain and leaves every table as it was.
C7_BestNotInFinalizedChainRollsBack ==
    [][(/\ last'.op = "insert"
        /\ last'.is_new_best
        /\ ~has_block(Db, last'.hash)
        /\ has_block(Db, HeaderOf[last'.hash].parent_hash)
        /\ HeaderOf[last'.hash].number <= finalized_num(Db))
           => /\ last'.result = "BestNotInFinalizedChain"
              /\ UNCHANGED Tables]_vars

\* C7 witness: such an insert was refused for a block with a non-empty body,
\* and neither the block nor a body row of it is stored.
C7_Witness ==
    /\ last.op = "insert"
    /\ last.result = "BestNotInFinalizedChain"
    /\ ExtrinsicsOf[last.hash] # << >>
    /\ ~has_block(Db, last.hash)
    /\ \A r \in blocks_body : r.hash # last.hash

\* C8: insert returns Duplicate exactly when the block is stored, and
\* MissingParent exactly when it is not stored and its parent is not stored;
\* in both cases every table is left as it was.
C8_DuplicateThenMissingParent ==
    [][last'.op = "insert" =>
        LET stored == has_block(Db, last'.hash)
            parent == has_block(Db, HeaderOf[last'.hash].parent_hash)
        IN  /\ (last'.result = "Duplicate") <=> stored
            /\ (last'.result = "MissingParent") <=> (~stored /\ ~parent)
            /\ last'.result \in {"Duplicate", "MissingParent"}
                  => UNCHANGED Tables]_vars

\* C8 witness: insert returned Duplicate for a stored block whose parent is
\* not stored: the Duplicate check came first.
C8_Witness ==
    /\ last.op = "insert"
    /\ last.result = "Duplicate"
    /\ has_block(Db, last.hash)
    /\ ~has_block(Db, HeaderOf[last.hash].parent_hash)

\* What the round trip of a block gives: its header and its body in order
RoundTrips(hash, body) ==
    /\ block_scale_encoded_header(Db, hash) = <<"Some", HeaderOf[hash]>>
    /\ block_extrinsics(Db, hash) = <<"Some", body>>

\* C9 as stated: a block stored by insert(header, false, body) gives back its
\* header and its body in order until purge_finality_orphans removes it.
C9_RoundTripUntilPurged ==
    \A h \in DOMAIN inserted : RoundTrips(h, inserted[h])

\* C9 amended: ... until purge_finality_orphans removes it or reset replaces
\* it (reset of a stored block replaces its body by the one it is given).
C9_RoundTripUntilPurgedOrReset ==
    \A h \in DOMAIN inserted \ replaced : RoundTrips(h, inserted[h])

\* C9 witness: a block with a body of two extrinsics was stored by
\* insert(header, false, body) and other calls followed.
C9_Witness ==
    /\ last.op # "insert"
    /\ \E h \in DOMAIN inserted \ replaced : Len(inserted[h]) = 2

\* C10: for a hash that is not stored the three queries return None, and for
\* a stored block they return Some.
C10_NoneIffNotStored ==
    \A h \in Hashes :
        LET results == {block_scale_encoded_header(Db, h),
                        block_parent(Db, h),
                        block_extrinsics(Db, h)}
        IN  \A r \in results : (r[1] = "Some") <=> has_block(Db, h)

\* The node hashes reachable from the hashes `found` through the child edges
\* and the trie_root_ref of the rows stored
RECURSIVE Reachable(_, _)
Reachable(db, found) ==
    LET children == {r.child_hash : r \in {r \in db.trie_node_child : r.hash \in found}}
        refs == {db.trie_node_storage[n].trie_root_ref :
                    n \in {n \in found \cap DOMAIN db.trie_node_storage :
                             db.trie_node_storage[n].trie_root_ref # NULL}}
    IN  IF (children \cup refs) \subseteq found THEN found
        ELSE Reachable(db, found \cup children \cup refs)

\* The hashes reachable from the state roots of the blocks `hashes`
ReachableFromBlocks(db, hashes) ==
    Reachable(db, {db.blocks[b].state_trie_root_hash : b \in hashes})

\* The keys looked up: every sequence of at most MaxKeyLen nibbles below
\* KeyNibbles
MaxKeyLen == 2
KeyNibbles == 3
Keys == UNION {[1 .. n -> 0 .. KeyNibbles - 1] : n \in 0 .. MaxKeyLen}

\* The nodes of the trie rooted at `hash`, each with its full key: the key of
\* a node is the key of its parent, the child number and its partial key
RECURSIVE TrieEntries(_, _, _)
TrieEntries(db, hash, parent_key) ==
    IF hash \notin DOMAIN db.trie_node THEN {}
    ELSE LET key == parent_key \o db.trie_node[hash]
         IN  {[key |-> key, node_hash |-> hash]} \cup
             UNION {TrieEntries(db, r.child_hash, key \o <<r.child_num>>) :
                       r \in {r \in db.trie_node_child : r.hash = hash}}

\* The hashes that the trie rooted at `hash` names through child edges
RECURSIVE TrieHashesOf(_, _)
TrieHashesOf(db, found) ==
    LET children == {r.child_hash : r \in {r \in db.trie_node_child : r.hash \in found}}
    IN  IF children \subseteq found THEN found
        ELSE TrieHashesOf(db, found \cup children)

\* The trie of a stored block is complete: its root and every node named
\* under it are in trie_node
IsComplete(db, block_hash) ==
    /\ db.blocks[block_hash].state_trie_root_hash # NULL
    /\ TrieHashesOf(db, {db.blocks[block_hash].state_trie_root_hash})
          \subseteq DOMAIN db.trie_node

\* The map M that the trie of a block encodes: the full keys of its nodes that
\* have a storage value, each with the value and the version stored
TrieMap(db, block_hash) ==
    {[key |-> e.key,
      value |-> IF db.trie_node_storage[e.node_hash].value # NULL
                THEN db.trie_node_storage[e.node_hash].value
                ELSE db.trie_node_storage[e.node_hash].trie_root_ref,
      version |-> db.trie_node_storage[e.node_hash].trie_entry_version] :
        e \in {e \in TrieEntries(db, db.blocks[block_hash].state_trie_root_hash, << >>) :
                  e.node_hash \in DOMAIN db.trie_node_storage}}

\* C18: for a stored block whose trie is complete and encodes the map M,
\* block_storage_get(block, [], k) is Some((M[k], version)) when k is a key of
\* M and None otherwise, whether k stops inside, extends or leaves a partial
\* key.
C18_PointLookupCorrect ==
    \A block_hash \in DOMAIN blocks :
        IsComplete(Db, block_hash) =>
            \A k \in Keys :
                LET M == {e \in TrieMap(Db, block_hash) : e.key = k}
                IN  /\ Cardinality(M) <= 1
                    /\ \A e \in M : block_storage_get(Db, block_hash, << >>, k)
                                       = <<"Some", e.value, e.version>>
                    /\ M = {} => block_storage_get(Db, block_hash, << >>, k)
                                    = <<"None">>

\* Block hA1 is stored with its complete trie: a key stored under a child, a
\* key that stops before a partial key ends and a key that leaves the trie
C18_Witness ==
    /\ "hA1" \in DOMAIN blocks
    /\ IsComplete(Db, "hA1")
    /\ "hG0" \in DOMAIN blocks
    /\ IsComplete(Db, "hG0")
    /\ block_storage_get(Db, "hA1", << >>, <<0, 1>>) = <<"Some", "vx", 0>>
    /\ block_storage_get(Db, "hA1", << >>, <<1, 2>>) = <<"Some", "vz", 0>>
    /\ block_storage_get(Db, "hA1", << >>, <<0>>) = <<"None">>
    /\ block_storage_get(Db, "hA1", << >>, <<0, 1, 1>>) = <<"None">>
    /\ block_storage_get(Db, "hG0", << >>, << >>) = <<"None">>
    /\ block_storage_get(Db, "hG0", << >>, <<2>>) = <<"None">>

\* What the trie rooted at `hash` says about a key, read from the tables
\* node by node: "Missing" when a node the key leads to is named but not in
\* trie_node, "Value" when the key is the key of a node with a storage
\* value, "Absent" when the nodes present show that no such entry exists
RECURSIVE Lookup(_, _, _)
Lookup(db, hash, key) ==
    IF hash = NULL \/ hash \notin DOMAIN db.trie_node THEN "Missing"
    ELSE LET partial_key == db.trie_node[hash]
             rest == SubSeq(key, Len(partial_key) + 1, Len(key))
             child == {r \in db.trie_node_child :
                          r.hash = hash /\ r.child_num = Head(rest)}
         IN  IF \/ Len(key) < Len(partial_key)
                \/ SubSeq(key, 1, Len(partial_key)) # partial_key
             THEN "Absent"
             ELSE IF rest = << >>
             THEN IF hash \in DOMAIN db.trie_node_storage
                  THEN "Value" ELSE "Absent"
             ELSE IF child = {} THEN "Absent"
             ELSE Lookup(db, (CHOOSE r \in child : TRUE).child_hash, Tail(rest))

\* C19: block_storage_get returns UnknownBlock when the block is not stored;
\* for a stored block it returns IncompleteStorage, and neither None nor a
\* value, when the root or a child that the key leads to is named but not in
\* trie_node, and it returns None only when the nodes present prove that the
\* key has no entry.
C19_IncompleteNeverNone ==
    \A block_hash \in Hashes : \A k \in Keys :
        LET result == block_storage_get(Db, block_hash, << >>, k)
            root == blocks[block_hash].state_trie_root_hash
        IN  IF block_hash \notin DOMAIN blocks
            THEN result = <<"UnknownBlock">>
            ELSE /\ Lookup(Db, root, k) = "Missing"
                     => result = <<"IncompleteStorage">>
                 /\ result = <<"None">> => Lookup(Db, root, k) = "Absent"

\* Block hA1 is stored, its root is present and names a child that is not:
\* a key through that child, a key the root proves absent, a block whose root
\* is absent and a block that is not stored
C19_Witness ==
    /\ {"hA1", "hB1"} \subseteq DOMAIN blocks
    /\ "hB2" \notin DOMAIN blocks
    /\ "s1" \in DOMAIN trie_node
    /\ "z" \notin DOMAIN trie_node
    /\ "s2" \notin DOMAIN trie_node
    /\ block_storage_get(Db, "hA1", << >>, <<2, 2>>) = <<"IncompleteStorage">>
    /\ block_storage_get(Db, "hA1", << >>, <<2, 0>>) = <<"None">>
    /\ block_storage_get(Db, "hB1", << >>, << >>) = <<"IncompleteStorage">>
    /\ block_storage_get(Db, "hB2", << >>, << >>) = <<"UnknownBlock">>

\* C13: purge_finality_orphans never deletes a trie node reachable, through
\* child edges or trie_root_ref, from the state root of a block that is still
\* stored after it, and every block_storage_get that succeeded on such a
\* block before the purge returns the same result after it.
C13_PurgeKeepsSurvivingTries ==
    [][(last'.op = "purge_finality_orphans" /\ last'.result = "Ok") =>
        \A b \in DOMAIN blocks' :
            /\ \A n \in ReachableFromBlocks(Db, {b}) \cap DOMAIN trie_node :
                   n \in DOMAIN trie_node'
            /\ \A k \in Keys :
                   LET before == block_storage_get(Db, b, << >>, k)
                   IN  before[1] \in {"Some", "None"} =>
                          block_storage_get(Db', b, << >>, k) = before]_vars

\* C14: after purge_finality_orphans every trie node that was reachable from
\* the state roots of the purged blocks and from no surviving block is gone
\* from trie_node; so if every node was referenced by a block before the
\* purge, every node is referenced by a block after it.
C14_PurgeRemovesUnreferencedNodes ==
    [][(last'.op = "purge_finality_orphans" /\ last'.result = "Ok") =>
        LET purged == DOMAIN blocks \ DOMAIN blocks'
            surviving == DOMAIN blocks'
        IN  /\ \A n \in ReachableFromBlocks(Db, purged)
                          \ ReachableFromBlocks(Db, surviving) :
                   n \notin DOMAIN trie_node'
            /\ DOMAIN trie_node \subseteq ReachableFromBlocks(Db, DOMAIN blocks)
                  => DOMAIN trie_node' \subseteq
                         ReachableFromBlocks(Db', DOMAIN blocks')]_vars

\* The three trie tables
TrieTables(db) == <<db.trie_node, db.trie_node_storage, db.trie_node_child>>

\* Every call of insert_trie_nodes: each batch with each version
AllInsertTrieNodesCalls == [new_trie_nodes : Batches, trie_entries_version : Versions]

\* C15: insert_trie_nodes is idempotent: from every state, for every batch and
\* version, running it twice leaves trie_node, trie_node_storage and
\* trie_node_child as running it once does.
C15_InsertTrieNodesIdempotent ==
    \A c \in AllInsertTrieNodesCalls :
        LET once == insert_trie_nodes(Db, c.new_trie_nodes, c.trie_entries_version)
            twice == insert_trie_nodes(once.db, c.new_trie_nodes, c.trie_entries_version)
        IN  /\ once.result = "Ok"
            /\ twice.result = "Ok"
            /\ TrieTables(twice.db) = TrieTables(once.db)

\* insert_trie_nodes has run and left node s1 without its child z; running
\* the batch that holds both changes the tables the first time only
C15_Witness ==
    /\ last.op = "insert_trie_nodes"
    /\ "s1" \in DOMAIN trie_node
    /\ "z" \notin DOMAIN trie_node
    /\ LET batch == <<NodeOf["z"], NodeOf["y"], NodeOf["x"], NodeOf["s1"]>>
           once == insert_trie_nodes(Db, batch, 0)
       IN  /\ TrieTables(once.db) # TrieTables(Db)
           /\ TrieTables(insert_trie_nodes(once.db, batch, 0).db) = TrieTables(once.db)

\* C16: insert_trie_nodes never overwrites a node already present: for every
\* Merkle value in trie_node before the call, the partial key, the storage
\* row (value, trie_root_ref, version, or its absence) and the set of child
\* rows are the same after the call, whatever the batch holds for it.
C16_PresentNodeUntouched ==
    [][last'.op = "insert_trie_nodes" =>
        \A hash \in DOMAIN trie_node :
            /\ hash \in DOMAIN trie_node'
            /\ trie_node'[hash] = trie_node[hash]
            /\ (hash \in DOMAIN trie_node_storage')
                   = (hash \in DOMAIN trie_node_storage)
            /\ hash \in DOMAIN trie_node_storage =>
                   trie_node_storage'[hash] = trie_node_storage[hash]
            /\ {r \in trie_node_child' : r.hash = hash}
                   = {r \in trie_node_child : r.hash = hash}]_vars

AfterS3 ==
    /\ DOMAIN blocks = {"hG0", "hA1", "hB1", "hB2"}
    /\ \A h \in {"hG0", "hB1", "hB2"} : blocks[h].is_best_chain = "TRUE"
    /\ blocks["hA1"].is_best_chain = "FALSE"
    /\ meta.best = "hB2"

\* C12: after purge_finality_orphans returns success no stored block has a
\* number at or below the finalized number with is_best_chain false, no body
\* row of a removed block remains, and every block that had is_best_chain
\* true or a number above the finalized number is still stored; so after
\* scenario S3, set_finalized(hB1) and the purge, the blocks of number 1 are
\* exactly hB1.
C12_PurgeRemovesExactlyOrphans ==
    [][(last'.op = "purge_finality_orphans" /\ last'.result = "Ok") =>
        /\ \A h \in DOMAIN blocks' :
               ~(blocks'[h].number <= meta'.finalized
                   /\ blocks'[h].is_best_chain = "FALSE")
        /\ \A r \in blocks_body' : r.hash \in DOMAIN blocks'
        /\ \A h \in DOMAIN blocks :
               (blocks[h].is_best_chain = "TRUE" \/ blocks[h].number > meta.finalized)
                   => h \in DOMAIN blocks'
        /\ (AfterS3 /\ last.op = "set_finalized" /\ last.hash = "hB1")
               => block_hashes_by_number(Db', 1) = {"hB1"}]_vars

\* C17: every MissingTrieNode returned has a hash that is not in trie_node
\* and a non-empty list of blocks, and each block listed is stored, has a
\* number at least the finalized number and reaches the hash from its state
\* root through child edges and trie_root_ref of present nodes.
C17_MissingNodesSound ==
    LET returned == finalized_and_above_missing_trie_nodes_unordered(Db)
    IN  \A missing \in returned.nodes :
            /\ missing.trie_node_hash \notin DOMAIN trie_node
            /\ missing.blocks # {}
            /\ \A b \in missing.blocks :
                   /\ b.hash \in DOMAIN blocks
                   /\ b.number = blocks[b.hash].number
                   /\ b.number >= meta.finalized
                   /\ missing.trie_node_hash \in ReachableFromBlocks(Db, {b.hash})

\* The finalized number is 1, the root of the genesis block (number 0) is
\* not stored and is not returned, and the node x, named by the root of hB1
\* and not stored, is returned for hB1 with the key of its child edge
C17_Witness ==
    LET returned == finalized_and_above_missing_trie_nodes_unordered(Db)
    IN  /\ meta.finalized = 1
        /\ "s0" \notin DOMAIN trie_node
        /\ "hB1" \in DOMAIN blocks
        /\ returned.result = "Ok"
        /\ [trie_node_hash |-> "x",
            blocks |-> {[hash |-> "hB1", number |-> 1,
                         parent_tries_paths_nibbles |-> << >>,
                         trie_node_key_nibbles |-> <<0>>]}] \in returned.nodes
        /\ \A missing \in returned.nodes : missing.trie_node_hash # "s0"

\* The prefixes asked for: every sequence of at most MaxPrefixLen nibbles
MaxPrefixLen == 1
Prefixes == UNION {[1 .. n -> 0 .. KeyNibbles - 1] : n \in 0 .. MaxPrefixLen}

\* prefix is the beginning of key
StartsWith(key, prefix) ==
    Len(prefix) <= Len(key) /\ SubSeq(key, 1, Len(prefix)) = prefix

\* The full keys of the nodes of the trie of a block that are at or after
\* `key`, start with `prefix` and, unless branch nodes are asked for, have a
\* storage value
NextKeyCandidates(db, block_hash, key, prefix, branch_nodes) ==
    {e.key : e \in {e \in TrieEntries(db, db.blocks[block_hash].state_trie_root_hash, << >>) :
                       /\ BlobLe(key, e.key)
                       /\ StartsWith(e.key, prefix)
                       /\ (branch_nodes \/ e.node_hash \in DOMAIN db.trie_node_storage)}}

\* C20: for a stored block whose trie is complete,
\* block_storage_next_key(block, [], key, prefix, branch_nodes) returns the
\* smallest full key of a node that is at or after key, starts with prefix
\* and (when branch_nodes is false) has a storage value, and None when there
\* is no such key.
C20_NextKeyIsSmallestMatch ==
    \A block_hash \in DOMAIN blocks :
        IsComplete(Db, block_hash) =>
            \A key \in Keys, prefix \in Prefixes, branch_nodes \in BOOLEAN :
                LET candidates == NextKeyCandidates(Db, block_hash, key, prefix, branch_nodes)
                    returned == block_storage_next_key(Db, block_hash, << >>, key,
                                                       prefix, branch_nodes)
                IN  IF candidates = {} THEN returned = {<<"None">>}
                    ELSE returned =
                           {<<"Some", CHOOSE k \in candidates :
                                         \A o \in candidates : BlobLe(k, o)>>}

\* The nodes of the trie of a block whose full key starts with `key`
Descendants(db, block_hash, key) ==
    {e \in TrieEntries(db, db.blocks[block_hash].state_trie_root_hash, << >>) :
        StartsWith(e.key, key)}

\* C21: for a stored block whose trie is complete,
\* block_storage_closest_descendant_merkle_value(block, [], key) is the Merkle
\* value of the one node with the shortest full key that starts with key, and
\* None when no node's full key starts with key.
C21_ClosestDescendantCorrect ==
    \A block_hash \in DOMAIN blocks :
        IsComplete(Db, block_hash) =>
            \A key \in Keys :
                LET descendants == Descendants(Db, block_hash, key)
                    shortest == {e \in descendants :
                                    \A o \in descendants : Len(e.key) <= Len(o.key)}
                    returned == block_storage_closest_descendant_merkle_value(
                                    Db, block_hash, << >>, key)
                IN  IF descendants = {} THEN returned = <<"None">>
                    ELSE /\ Cardinality(shortest) = 1
                         /\ \A e \in shortest : returned = <<"Some", e.node_hash>>

\* Block hA1 is stored with its complete trie: a key that is the key of a
\* node, a key that stops before a partial key ends, the empty key, a key
\* with no child edge and a key that leaves a partial key
C21_Witness ==
    /\ "hA1" \in DOMAIN blocks
    /\ IsComplete(Db, "hA1")
    /\ block_storage_closest_descendant_merkle_value(Db, "hA1", << >>, <<1, 2>>)
          = <<"Some", "z">>
    /\ block_storage_closest_descendant_merkle_value(Db, "hA1", << >>, <<0>>)
          = <<"Some", "x">>
    /\ block_storage_closest_descendant_merkle_value(Db, "hA1", << >>, << >>)
          = <<"Some", "s1">>
    /\ block_storage_closest_descendant_merkle_value(Db, "hA1", << >>, <<1, 0>>)
          = <<"None">>
    /\ block_storage_closest_descendant_merkle_value(Db, "hA1", << >>, <<0, 0>>)
          = <<"None">>

\* C22: after reset succeeded, best_block_hash() and finalized_block_hash()
\* both return the hash of the header given, whichever row the query of the
\* finalized hash takes, and that block is the only block flagged best-chain
\* at or above its height.
C22_ResetInstallsBestAndFinalized ==
    (last.op = "reset" /\ last.result = "Ok") =>
        /\ best_block_hash(Db) = last.hash
        /\ finalized_hash(Db) = {last.hash}
        /\ \A h \in DOMAIN blocks :
               (/\ blocks[h].is_best_chain = "TRUE"
                /\ blocks[h].number >= blocks[last.hash].number) => h = last.hash

\* C23: after reset(ci, ...) with a valid chain information ci,
\* to_chain_information of the hash of ci's finalized header returns ci,
\* whatever consensus metadata was stored before, and to_chain_information of
\* any other hash returns IncompleteStorage.
C23_ChainInformationRoundTrip ==
    [][\A chain_information \in ResetChainInformations :
          Reset(chain_information, << >>) =>
              LET hash == hash_from_scale_encoded_header(
                              chain_information.finalized_block_header)
              IN  /\ to_chain_information(Db, hash)' = {<<"Ok", chain_information>>}
                  /\ \A h \in ConsensusHashes \ {hash} :
                         to_chain_information(Db, h)'
                             = {<<"Err", "IncompleteStorage">>}]_vars

\* C24: no operation pulls an item from an iterator of its caller while it
\* holds the mutex, so an iterator whose next() calls back into the database
\* deadlocks no thread.
C24_IteratorsDrainedBeforeLock ==
    \A t \in Threads :
        /\ pc[t].at \in {"drain", "loop"} => mutex # t
        /\ pc[t].at # "deadlocked"

\* C25: the operations of the threads are linearizable in the order in
\* which they take the mutex: an operation that returns leaves the result
\* and the tables that the operation run alone leaves on the tables of the
\* last commit, which are those it found when it took the mutex, and only
\* the thread that holds the mutex changes the tables.
C25_LinearizableInMutexOrder ==
    [][\A t \in Threads :
          /\ (pc[t].at \in {"locked", "loop", "purge", "finish"}
                 /\ pc'[t].at = "idle") =>
                 [result |-> last'.result, db |-> Db']
                     \in Sequential(committed, pc[t].call)
          /\ (pc'[t] # pc[t] /\ Tables' # Tables) => mutex = t
          /\ (mutex = t /\ mutex' = t) => committed' = committed
          /\ (mutex # t /\ mutex' = t) => Db = committed]_vars

\* A thread has committed an insert with a body of two extrinsics and a new
\* best block while the other thread waits for the mutex
C25_Witness ==
    /\ last.op = "insert"
    /\ last.hash = "hA1"
    /\ last.is_new_best
    /\ last.result = "Ok"
    /\ mutex = NULL
    /\ \E t \in Threads : pc[t].at = "lock"
    /\ calls >= 2

\* C26: every stored block other than the one installed by reset or
\* initialize has its parent stored: a block that an operation other than
\* reset stores has its parent stored, and a block above the finalized
\* number, which is never the installed one, does not lose its parent while
\* it stays stored; in particular purge_finality_orphans leaves no
\* descendant of a purged orphan.
C26_ParentStored ==
    [][\A h \in DOMAIN blocks' :
          /\ (h \notin DOMAIN blocks /\ last'.op # "reset") =>
                 blocks'[h].parent_hash \in DOMAIN blocks'
          /\ (/\ h \in DOMAIN blocks
              /\ blocks[h].parent_hash \in DOMAIN blocks
              /\ blocks'[h].number > meta'.finalized) =>
                 blocks'[h].parent_hash \in DOMAIN blocks']_vars

\* C27: an insert that moves the best block from C to N, with N higher than,
\* level with or lower than C, succeeds and leaves is_best_chain TRUE on the
\* blocks of N's chain that are not on C's chain, FALSE on the blocks of C's
\* chain that are not on N's chain, every other flag as it was, and `best`
\* at N.
C27_BestChainReassignment ==
    [][(/\ last'.op = "insert"
        /\ last'.is_new_best
        /\ last'.result \in {"Ok", "Corrupted"}) =>
           LET N == last'.hash
               C == meta.best
               after == [blocks |-> blocks']
               path_N == ChainFrom(after, N) \ ChainFrom(after, C)
               path_C == ChainFrom(after, C) \ ChainFrom(after, N)
           IN  /\ last'.result = "Ok"
               /\ \A h \in path_N : blocks'[h].is_best_chain = "TRUE"
               /\ \A h \in path_C : blocks'[h].is_best_chain = "FALSE"
               /\ \A h \in DOMAIN blocks \ (path_N \cup path_C) :
                      blocks'[h].is_best_chain = blocks[h].is_best_chain
               /\ meta'.best = N]_vars

\* C28: the walk of the best-chain reassignment ends in every reachable
\* state, also after a reset that installed a block whose parent is not
\* stored: no insert with is_new_best leaves the recursive query running.
C28_WalkTerminates ==
    /\ ~hung
    /\ last.result # "Hang"

\* The consensus metadata after the digests of the ancestors of `hash` above
\* the height current_finalized, lowest first, `hash` included
RECURSIVE FinalizeAncestors(_, _, _, _)
FinalizeAncestors(db, cons, hash, current_finalized) ==
    IF hash \notin DOMAIN db.blocks THEN <<"Ok", cons>>
    ELSE IF db.blocks[hash].number <= current_finalized THEN <<"Ok", cons>>
    ELSE LET below == FinalizeAncestors(db, cons, db.blocks[hash].parent_hash,
                                        current_finalized)
         IN  IF below[1] # "Ok" THEN below
             ELSE FinalizeHeader(below[2], db.blocks[hash].header)

\* C29: when set_finalized(h) advances the finalized number from f to n,
\* exactly one block is stored at every height of f+1..n, and the consensus
\* metadata it leaves is the one that the digests of the ancestors of h at
\* these heights produce, in height order.
C29_FinalizedHeightsHaveOneBlock ==
    [][\A hash \in ConsensusHashes :
          (/\ SetFinalized(hash)
           /\ hash \in DOMAIN blocks
           /\ blocks[hash].number > meta.finalized) =>
              /\ \A height \in (meta.finalized + 1) .. blocks[hash].number :
                     Cardinality(block_hashes_by_number(Db, height)) = 1
              /\ last'.result = "Ok" =>
                     <<"Ok", consensus_meta'>>
                         = FinalizeAncestors(Db, consensus_meta, hash, meta.finalized)]_vars

RECURSIVE BabeRolledForward(_, _, _, _)
BabeRolledForward(db, cons, hash, current_finalized) ==
    IF hash \notin DOMAIN db.blocks
    THEN [defined |-> TRUE, epoch |-> cons.babe_finalized_epoch,
          next |-> cons.babe_finalized_next_epoch]
    ELSE IF db.blocks[hash].number <= current_finalized
    THEN [defined |-> TRUE, epoch |-> cons.babe_finalized_epoch,
          next |-> cons.babe_finalized_next_epoch]
    ELSE
    LET before == BabeRolledForward(db, cons, db.blocks[hash].parent_hash,
                                    current_finalized)
        digest == db.blocks[hash].header.digest
        info == babe_epoch_information(digest)
        previous == decode_babe_epoch_information(before.next)
        start == IF previous[2].start_slot_number = None
                 THEN babe_pre_runtime(digest)[2].slot_number
                 ELSE previous[2].start_slot_number[2]
        config == IF info[2][2] = None
                  THEN [c |-> previous[2].c, allowed_slots |-> previous[2].allowed_slots]
                  ELSE [c |-> info[2][2][2].c, allowed_slots |-> info[2][2][2].allowed_slots]
    IN  IF ~before.defined THEN before
        ELSE IF info = None THEN before
        ELSE IF previous[1] # "Ok" THEN [before EXCEPT !.defined = FALSE]
        ELSE [defined |-> TRUE,
              epoch |-> before.next,
              next |-> encode_babe_epoch_information(
                  BabeEpochInformation(
                      previous[2].epoch_index + 1,
                      Some(start + FromI64(cons.babe_slots_per_epoch)),
                      info[2][1].authorities,
                      info[2][1].randomness,
                      config.c,
                      config.allowed_slots))]

\* C31: a set_finalized that returns Ok leaves in babe_finalized_epoch and
\* babe_finalized_next_epoch what the blocks between the old and the new
\* finalized block produce in height order: each block with epoch information
\* promotes the next epoch and stores a new next epoch (index + 1, start slot
\* + slots_per_epoch, authorities and randomness of the digest, configuration
\* of the digest or carried over), each other block leaves both keys.
C31_BabeRollForward ==
    [][\A hash \in ConsensusHashes :
          (/\ SetFinalized(hash)
           /\ last'.result = "Ok"
           /\ hash \in DOMAIN blocks
           /\ blocks[hash].number > meta.finalized) =>
              [defined |-> TRUE,
               epoch |-> consensus_meta'.babe_finalized_epoch,
               next |-> consensus_meta'.babe_finalized_next_epoch]
                  = BabeRolledForward(Db, consensus_meta, hash, meta.finalized)]_vars

\* The rows of grandpa_triggered_authorities as the list they encode
TriggeredAuthorities(rows) ==
    LET ordered == OrderRowsByIdx(rows)
    IN  [i \in DOMAIN ordered |->
            Authority(ordered[i].public_key, FromI64(ordered[i].weight))]

\* The GRANDPA set id and triggered authorities after the blocks of the chain
\* of `hash` above the height current_finalized, lowest first: when GRANDPA
\* is active a block with a ScheduledChange of delay 0 installs the list of
\* the change and adds one to the set id, any other block changes nothing.
RECURSIVE GrandpaRolledForward(_, _, _, _)
GrandpaRolledForward(db, cons, hash, current_finalized) ==
    IF hash \notin DOMAIN db.blocks \/ db.blocks[hash].number <= current_finalized
    THEN [set_id |-> cons.grandpa_authorities_set_id,
          triggered |-> TriggeredAuthorities(cons.grandpa_triggered_authorities)]
    ELSE
    LET before == GrandpaRolledForward(db, cons, db.blocks[hash].parent_hash,
                                       current_finalized)
        changes_of_block ==
            DigestItems(db.blocks[hash].header.digest, "GrandpaConsensus",
                        "ScheduledChange")
    IN  IF before.set_id = NULL_INT THEN before
        ELSE IF changes_of_block = << >> THEN before
        ELSE IF changes_of_block[1].delay # 0 THEN before
        ELSE [set_id |-> before.set_id + 1,
              triggered |-> changes_of_block[1].next_authorities]

\* C32: a set_finalized that returns Ok leaves in grandpa_authorities_set_id
\* and grandpa_triggered_authorities what the blocks between the old and the
\* new finalized block produce in height order: with GRANDPA active, each
\* block with a ScheduledChange of delay 0 replaces the ordered list by the
\* list of the change and adds exactly one to the set id; without GRANDPA or
\* without such an item both are unchanged.
C32_GrandpaRollForward ==
    [][\A hash \in ConsensusHashes :
          (/\ SetFinalized(hash)
           /\ last'.result = "Ok"
           /\ hash \in DOMAIN blocks
           /\ blocks[hash].number > meta.finalized) =>
              [set_id |-> consensus_meta'.grandpa_authorities_set_id,
               triggered |-> TriggeredAuthorities(
                                 consensus_meta'.grandpa_triggered_authorities)]
                  = GrandpaRolledForward(Db, consensus_meta, hash, meta.finalized)]_vars

\* C33: for a stored block whose trie has at the key p a node with a
\* trie_root_ref to a nested trie that is present, block_storage_get(block,
\* [p], k) returns the value stored at k in the nested trie, and None when the
\* nested trie has no entry at k.
C33_ChildTriePointLookup ==
    \A block_hash \in DOMAIN blocks : \A p \in Keys :
        \A e \in {e \in TrieEntries(Db, blocks[block_hash].state_trie_root_hash, << >>) :
                     /\ e.key = p
                     /\ e.node_hash \in DOMAIN trie_node_storage
                     /\ trie_node_storage[e.node_hash].trie_root_ref # NULL} :
            LET nested == trie_node_storage[e.node_hash].trie_root_ref
            IN  (TrieHashesOf(Db, {nested}) \subseteq DOMAIN trie_node) =>
                    \A k \in Keys :
                        LET M == {n \in TrieEntries(Db, nested, << >>) :
                                     /\ n.key = k
                                     /\ n.node_hash \in DOMAIN trie_node_storage}
                            result == block_storage_get(Db, block_hash, <<p>>, k)
                        IN  /\ \A n \in M :
                                  result = <<"Some",
                                             trie_node_storage[n.node_hash].value,
                                             trie_node_storage[n.node_hash].trie_entry_version>>
                            /\ M = {} => result = <<"None">>

\* C34: block_storage_next_key returns UnknownBlock when the block is not
\* stored; for a stored block it returns IncompleteStorage, and neither None
\* nor a key, when the state root is not in trie_node, whatever the prefix,
\* and when key starts with prefix and leads to a child that is named but not
\* in trie_node.
C34_NextKeyIncompleteStorage ==
    \A block_hash \in TrieHashes :
        \A key \in Keys, prefix \in Prefixes, branch_nodes \in BOOLEAN :
            LET returned == block_storage_next_key(Db, block_hash, << >>, key,
                                                   prefix, branch_nodes)
                root == blocks[block_hash].state_trie_root_hash
            IN  IF block_hash \notin DOMAIN blocks
                THEN returned = {<<"UnknownBlock">>}
                ELSE /\ root \notin DOMAIN trie_node
                            => returned = {<<"IncompleteStorage">>}
                     /\ (StartsWith(key, prefix) /\ Lookup(Db, root, key) = "Missing")
                            => returned = {<<"IncompleteStorage">>}

\* The child edge at which the descent along `key` from the present node
\* `hash` leaves trie_node: the hash the edge names and the nibbles of the key
\* left after the nibble of the edge.  None when the descent meets no such
\* edge.
RECURSIVE EdgeToAbsent(_, _, _)
EdgeToAbsent(db, hash, key) ==
    LET partial_key == db.trie_node[hash]
        rest == SubSeq(key, Len(partial_key) + 1, Len(key))
        child == {r \in db.trie_node_child :
                     r.hash = hash /\ r.child_num = Head(rest)}
        child_hash == (CHOOSE r \in child : TRUE).child_hash
    IN  IF \/ Len(key) <= Len(partial_key)
           \/ SubSeq(key, 1, Len(partial_key)) # partial_key
        THEN None
        ELSE IF child = {} THEN None
        ELSE IF child_hash \notin DOMAIN db.trie_node
        THEN Some(<<child_hash, Tail(rest)>>)
        ELSE EdgeToAbsent(db, child_hash, Tail(rest))

\* C35: block_storage_closest_descendant_merkle_value on a stored block whose
\* key ends exactly at a child edge to a node that is not in trie_node, or is
\* empty while the state root is not in trie_node, returns the Merkle value
\* of that node; when nibbles of the key remain after the edge, or the key is
\* not empty and the root is absent, it returns IncompleteStorage.
C35_ClosestDescendantAbsentNodes ==
    \A block_hash \in DOMAIN blocks : \A key \in Keys :
        LET root == blocks[block_hash].state_trie_root_hash
            result == block_storage_closest_descendant_merkle_value(
                          Db, block_hash, << >>, key)
            edge == EdgeToAbsent(Db, root, key)
        IN  IF root \notin DOMAIN trie_node
            THEN result = IF key = << >> THEN <<"Some", root>>
                          ELSE <<"IncompleteStorage">>
            ELSE edge # None =>
                    result = IF edge[2][2] = << >> THEN <<"Some", edge[2][1]>>
                             ELSE <<"IncompleteStorage">>

\* Block hB1 is stored with its root s2 present and the child x at nibble 0
\* absent, and the root of the genesis block is absent: the key that ends at
\* the edge, a key that continues after it, and the two cases of the root
C35_Witness ==
    /\ {"hG0", "hB1"} \subseteq DOMAIN blocks
    /\ "s2" \in DOMAIN trie_node
    /\ "x" \notin DOMAIN trie_node
    /\ "s0" \notin DOMAIN trie_node
    /\ block_storage_closest_descendant_merkle_value(Db, "hB1", << >>, <<0>>)
          = <<"Some", "x">>
    /\ block_storage_closest_descendant_merkle_value(Db, "hB1", << >>, <<0, 1>>)
          = <<"IncompleteStorage">>
    /\ block_storage_closest_descendant_merkle_value(Db, "hG0", << >>, << >>)
          = <<"Some", "s0">>
    /\ block_storage_closest_descendant_merkle_value(Db, "hG0", << >>, <<1>>)
          = <<"IncompleteStorage">>

\* The absent nodes under the node `hash` of a block, each with the path that
\* leads to it: `paths` are the keys of the enclosing tries already closed by
\* a 0x10, `key` is the key inside the current trie.  A present node adds its
\* partial key, a child edge adds its nibble, a trie_root_ref closes `key`.
RECURSIVE AbsentUnder(_, _, _, _)
AbsentUnder(db, hash, paths, key) ==
    IF hash \notin DOMAIN db.trie_node
    THEN {[trie_node_hash |-> hash, parent_tries_paths_nibbles |-> paths,
           trie_node_key_nibbles |-> key]}
    ELSE LET node_key == key \o db.trie_node[hash]
         IN  UNION {AbsentUnder(db, r.child_hash, paths, node_key \o <<r.child_num>>) :
                       r \in {r \in db.trie_node_child : r.hash = hash}}
             \cup
             (IF /\ hash \in DOMAIN db.trie_node_storage
                 /\ db.trie_node_storage[hash].trie_root_ref # NULL
              THEN AbsentUnder(db, db.trie_node_storage[hash].trie_root_ref,
                               paths \o <<node_key>>, << >>)
              ELSE {})

\* C36: finalized_and_above_missing_trie_nodes_unordered returns one
\* MissingTrieNode for each hash that is not in trie_node and is named by the
\* state root of a block at or above the finalized number or by a child edge
\* or trie_root_ref of a present node under it, and for no other hash; the
\* blocks of a MissingTrieNode are the (block, path) pairs that reach it, the
\* path being the key of the parent and the child nibble, cut at each 0x10.
C36_MissingNodesCompleteAndGrouped ==
    LET returned == finalized_and_above_missing_trie_nodes_unordered(Db)
        above == {b \in DOMAIN blocks : blocks[b].number >= meta.finalized}
        absent == UNION {
            {[trie_node_hash |-> a.trie_node_hash,
              block |-> [hash |-> b, number |-> blocks[b].number,
                         parent_tries_paths_nibbles |-> a.parent_tries_paths_nibbles,
                         trie_node_key_nibbles |-> a.trie_node_key_nibbles]] :
                a \in AbsentUnder(Db, blocks[b].state_trie_root_hash, << >>, << >>)} :
            b \in above}
    IN  /\ returned.result = "Ok"
        /\ {missing.trie_node_hash : missing \in returned.nodes}
              = {a.trie_node_hash : a \in absent}
        /\ {a.trie_node_hash : a \in absent}
              = ReachableFromBlocks(Db, above) \ DOMAIN trie_node
        /\ \A missing \in returned.nodes :
              /\ \A other \in returned.nodes :
                    other.trie_node_hash = missing.trie_node_hash => other = missing
              /\ missing.blocks
                    = {a.block : a \in {a \in absent :
                                           a.trie_node_hash = missing.trie_node_hash}}

\* The root of hA1 is present with a partial key and names the absent node z;
\* the root of hB1 is present and names the absent node x and the present
\* node w, whose trie_root_ref t is absent: three missing nodes, the last one
\* with the key of w as parent trie path
C36_Witness ==
    LET returned == finalized_and_above_missing_trie_nodes_unordered(Db)
    IN  /\ {"hA1", "hB1"} \subseteq DOMAIN blocks
        /\ meta.finalized = 0
        /\ "s0" \in DOMAIN trie_node
        /\ returned.result = "Ok"
        /\ returned.nodes =
              {[trie_node_hash |-> "z",
                blocks |-> {[hash |-> "hA1", number |-> 1,
                             parent_tries_paths_nibbles |-> << >>,
                             trie_node_key_nibbles |-> <<2, 2>>]}],
               [trie_node_hash |-> "x",
                blocks |-> {[hash |-> "hB1", number |-> 1,
                             parent_tries_paths_nibbles |-> << >>,
                             trie_node_key_nibbles |-> <<0>>]}],
               [trie_node_hash |-> "t",
                blocks |-> {[hash |-> "hB1", number |-> 1,
                             parent_tries_paths_nibbles |-> <<<<2, 0>>>>,
                             trie_node_key_nibbles |-> << >>]}]}

\* C37: an insert_trie_nodes that meets an entry with a partial-key value of
\* 16 or more panics, and its return leaves the three trie tables, as every
\* other table, as they were when it took the mutex: the entries written
\* before the offending one are gone; the mutex is free and no statement is
\* left running.
C37_InsertTrieNodesAtomicOnPanic ==
    [][\A t \in Threads :
          (/\ pc[t].call.op = "insert_trie_nodes"
           /\ \E i \in DOMAIN CallerItems(pc[t].call) :
                 \E j \in DOMAIN CallerItems(pc[t].call)[i].partial_key_nibbles :
                     CallerItems(pc[t].call)[i].partial_key_nibbles[j] >= 16
           /\ pc[t].at = "loop"
           /\ pc'[t].at # "loop") =>
              /\ pc'[t].at = "idle"
              /\ last'.op = "insert_trie_nodes"
              /\ last'.result = "Panic"
              /\ Db' = committed
              /\ committed' = committed
              /\ mutex' = NULL
              /\ ~hung']_vars

\* An insert_trie_nodes has panicked on its third entry after it had written
\* two, and another operation has taken the mutex since: none of the entries
\* of the batch is in trie_node
C37_Witness ==
    /\ last.op = "insert_trie_nodes"
    /\ last.result = "Panic"
    /\ {"t", "w", "n16"} \cap DOMAIN trie_node = {}
    /\ trie_node_child = {}
    /\ \E t \in Threads : mutex = t /\ pc[t].at = "locked"

\* The number of rows after which a recursive SELECT that still derives rows
\* is taken not to end: more than the longest key with its separators and
\* the deepest trie together
MaxDescent == 12

\* Every chain of rows that next_key derives from `row` reaches within
\* `steps` rows a row from which the recursive SELECT derives nothing
RECURSIVE NextKeyEnds(_, _, _, _)
NextKeyEnds(db, row, skip_branches, steps) ==
    IF ~NextKeyContinues(row, skip_branches) THEN TRUE
    ELSE IF steps = 0 THEN FALSE
    ELSE \A c \in NextKeyChildren(db, row) :
            \A derived \in NextKeyRow(db, row, c) :
                NextKeyEnds(db, derived, skip_branches, steps - 1)

\* The same for closest_descendant
RECURSIVE ClosestDescendantEnds(_, _, _)
ClosestDescendantEnds(db, row, steps) ==
    IF row.search_remain = NULL_BLOB \/ row.search_remain = << >> THEN TRUE
    ELSE IF steps = 0 THEN FALSE
    ELSE \A derived \in ClosestDescendantNextRows(db, row) :
            /\ derived.search_remain # row.search_remain
            /\ ClosestDescendantEnds(db, derived, steps - 1)

\* The lists of parent trie paths of the queries: none, or one path
QueryParentPaths == {<< >>} \cup {<<p>> : p \in Keys}

\* block_storage_get on the tries of the stored blocks never runs for ever
BlockStorageGetEnds ==
    \A block_hash \in DOMAIN blocks : \A paths \in QueryParentPaths :
        \A key \in Keys :
            block_storage_get(Db, block_hash, paths, key) # <<"Hang">>

\* block_storage_next_key on the tries of the stored blocks derives finitely
\* many rows
BlockStorageNextKeyEnds ==
    \A block_hash \in DOMAIN blocks : \A paths \in QueryParentPaths :
        \A key \in Keys : \A skip_branches \in BOOLEAN :
            NextKeyEnds(Db,
                        NextKeyInitialRow(Db, block_hash, KeyVectored(paths, key)),
                        skip_branches, MaxDescent)

\* block_storage_closest_descendant_merkle_value derives finitely many rows
BlockStorageClosestDescendantEnds ==
    \A block_hash \in DOMAIN blocks : \A paths \in QueryParentPaths :
        \A key \in Keys :
            \A row \in ClosestDescendantInitialRows(Db, block_hash,
                                                    KeyVectored(paths, key)) :
                ClosestDescendantEnds(Db, row, MaxDescent)

\* C38: for every stored block, every key and every list of parent trie
\* paths, block_storage_get, block_storage_next_key and
\* block_storage_closest_descendant_merkle_value reach a result after
\* finitely many rows, also when the key holds the separator 0x10 and the
\* node reached has no trie_root_ref or the search has failed.
C38_TrieQueriesTerminate ==
    /\ BlockStorageGetEnds
    /\ BlockStorageNextKeyEnds
    /\ BlockStorageClosestDescendantEnds

InsertNotBestFrame(block_hash) ==
    /\ block_hash \notin DOMAIN blocks
    /\ DOMAIN blocks' = DOMAIN blocks \cup {block_hash}
    /\ blocks'[block_hash].is_best_chain = "FALSE"
    /\ \A b \in DOMAIN blocks : blocks'[b] = blocks[b]
    /\ block_hash \in DOMAIN inserted'
    /\ blocks_body' = blocks_body \cup BodyRows(block_hash, inserted'[block_hash])
    /\ best_block_hash(Db') = best_block_hash(Db)
    /\ meta' = meta
    /\ consensus_meta' = consensus_meta
    /\ TrieTables(Db') = TrieTables(Db)

\* C40: an insert(header, is_new_best = false, body) that succeeds adds one
\* row to blocks, off the best chain, and the rows of its body, and changes
\* nothing else: best_block_hash(), finalized_block_hash(), the flags of the
\* other blocks, the consensus metadata and the trie tables are as before.
C40_InsertNotBestFrame ==
    [][\A header \in Headers :
          (/\ \E body \in InsertBodies(header) : Insert(header, FALSE, body)
           /\ last'.op = "insert"
           /\ last'.hash = hash_from_scale_encoded_header(header)
           /\ ~last'.is_new_best
           /\ last'.result = "Ok") =>
              /\ InsertNotBestFrame(hash_from_scale_encoded_header(header))
              /\ finalized_hash(Db') = finalized_hash(Db)]_vars

====
